---- MODULE Spec2Model ----
(***************************************************************************)
(* Orchestra coordination engine (src/orchestra/orchestra/state.py,        *)
(* models.py) and the dispatcher that drives it (server.py).               *)
(*                                                                         *)
(* The in-memory ConversationState of a StateManager is the record `st`;   *)
(* `state_file` is .orchestra/state.json and `conversation_log` is         *)
(* .orchestra/conversation.md.  Every StateManager method is a pure        *)
(* operator from the state before the call to an Outcome (state after,     *)
(* returned value, number of _save calls, transcript blocks appended), and *)
(* one action applies it to the engine.  Python's None is the string       *)
(* "None" for scalar fields and the empty tuple for returned objects.      *)
(* state.json holds the JSON document of the state: null and objects are   *)
(* not what None and a dict are in memory.                                 *)
(*                                                                         *)
(* Ids: a uuid token is a number.  One engine numbers the objects of a     *)
(* collection in creation order (NewId); processes sharing a directory draw*)
(* from disjoint ranges (UniqueId).  A dependency list may name any id,    *)
(* also one no task has.  Timestamps, session_id, in_reply_to and the free *)
(* text of titles and descriptions are left out: no branch of the engine   *)
(* reads them.  A file read or write is atomic.                            *)
(***************************************************************************)
EXTENDS Integers, Sequences, FiniteSets, TLC

VARIABLES
    initialized,        \* StateManager._state is not None
    st,                 \* StateManager._state (ConversationState)
    state_dir,          \* the state directory exists
    state_file,         \* <<>> when state.json does not exist, else <<document>>
    conversation_log,   \* blocks appended to conversation.md (<<>>: no file)
    ret,                \* the last call: operation, arguments, returned value
    claims_won,         \* history: <<task id, agent>> of every successful claim since reset
    procs               \* the dispatcher processes sharing one state directory,
                        \* or the calls in flight in one process

vars == <<initialized, st, state_dir, state_file, conversation_log, ret, claims_won, procs>>

----------------------------------------------------------------------------
(* Bounds of the model *)

MaxTasks == 2
MaxMessages == 3
MaxReviews == 2
MaxCalls == 2

----------------------------------------------------------------------------
(* models.py *)

None == "None"

AgentRole == {"claude", "gemini", "codex", "copilot"}

PENDING == "pending"
CLAIMED == "claimed"
IN_PROGRESS == "in_progress"
REVIEW == "review"
COMPLETED == "completed"
BLOCKED == "blocked"
TaskStatus == {PENDING, CLAIMED, IN_PROGRESS, REVIEW, COMPLETED, BLOCKED}

Priority == {"low", "normal", "high", "urgent"}
MessageType == {"task", "question", "response", "review_request",
                "review_result", "broadcast", "escalation"}

Message(id, from_agent, to_agent, message_type, content, priority) ==
    [id |-> id, from_agent |-> from_agent, to_agent |-> to_agent,
     message_type |-> message_type, content |-> content,
     priority |-> priority, read |-> FALSE]

Task(id, created_by, assigned_to, dependencies) ==
    [id |-> id, status |-> PENDING, created_by |-> created_by,
     assigned_to |-> assigned_to, claimed_by |-> None,
     dependencies |-> dependencies, result |-> None, files_modified |-> <<>>]

ReviewRequest(id, from_agent, to_agent, content) ==
    [id |-> id, from_agent |-> from_agent, to_agent |-> to_agent,
     content |-> content, verdict |-> None, feedback |-> None]

ConversationState ==
    [initial_prompt |-> None, messages |-> <<>>, tasks |-> <<>>,
     reviews |-> <<>>, context |-> <<>>, active_votes |-> <<>>,
     human_intervention_requested |-> FALSE, escalation_reason |-> None]

----------------------------------------------------------------------------
(* Outcomes of StateManager methods *)

\* A method that returned `result` after `saves` calls of _save, having
\* appended the blocks `log` to the transcript.  `at_save` is the state in
\* memory when it first calls _save: where it stops if that _save raises.
Outcome(s, result, saves, log) ==
    [state |-> s, at_save |-> s, result |-> result, saves |-> saves, log |-> log]

\* `return None` before any mutation.
Rejected(s) == Outcome(s, <<>>, 0, <<>>)

\* The token a default_factory hands to the next object of a collection of
\* one engine: tokens are distinct within a document.
NewId(coll) == Len(coll) + 1

\* Index of the first element of coll whose id is `id`, 0 when there is none.
IndexOfId(coll, id) ==
    IF \E i \in DOMAIN coll : coll[i].id = id
    THEN CHOOSE i \in DOMAIN coll :
            coll[i].id = id /\ \A j \in 1..(i - 1) : coll[j].id # id
    ELSE 0

----------------------------------------------------------------------------
(* state.py: message operations *)

\* The transcript block send_message writes.
MessageBlock(msg) ==
    <<"MESSAGE", msg.id, msg.from_agent,
      IF msg.to_agent # None THEN msg.to_agent ELSE "ALL", msg.message_type>>

\* send_message without its _append_to_log.
send_message_unlogged(s, id, from_agent, to_agent, content, message_type, priority) ==
    LET msg == Message(id, from_agent, to_agent,
                       message_type, content, priority)
    IN  Outcome([s EXCEPT !.messages = Append(@, msg)], <<msg>>, 1, <<>>)

\* `id` is the token Message's default_factory draws.
send_message(s, id, from_agent, to_agent, content, message_type, priority) ==
    LET msg == Message(id, from_agent, to_agent,
                       message_type, content, priority)
    IN  Outcome([s EXCEPT !.messages = Append(@, msg)],
                <<msg>>, 1, <<MessageBlock(msg)>>)

\* get_inbox without the is_from_self test: own messages come back too.
get_inbox_with_own(s, agent, unread_only) ==
    LET is_for_agent(msg) == msg.to_agent = agent \/ msg.to_agent = None
        keep(msg) == is_for_agent(msg) /\ ~(unread_only /\ msg.read)
    IN  SelectSeq(s.messages, keep)

get_inbox(s, agent, unread_only) ==
    LET is_for_agent(msg) == msg.to_agent = agent \/ msg.to_agent = None
        is_from_self(msg) == msg.from_agent = agent
        keep(msg) == /\ is_for_agent(msg) /\ ~is_from_self(msg)
                     /\ ~(unread_only /\ msg.read)
    IN  SelectSeq(s.messages, keep)

\* mark_read flipping the flag: a second mark_read makes the message unread.
mark_read_toggle(s, message_id, agent) ==
    LET i == IndexOfId(s.messages, message_id)
    IN  Outcome(IF i = 0 THEN s ELSE [s EXCEPT !.messages[i].read = ~@],
                <<>>, 1, <<>>)

mark_read(s, message_id, agent) ==
    LET i == IndexOfId(s.messages, message_id)
    IN  Outcome(IF i = 0 THEN s ELSE [s EXCEPT !.messages[i].read = TRUE],
                <<>>, 1, <<>>)

----------------------------------------------------------------------------
(* state.py: task operations *)

\* `id` is the token Task's default_factory draws.
create_task(s, id, created_by, assigned_to, dependencies) ==
    LET task == Task(id, created_by, assigned_to, dependencies)
    IN  Outcome([s EXCEPT !.tasks = Append(@, task)], <<task>>, 1,
                <<<<"TASK CREATED", task.id, created_by>>>>)

\* get_task: the first task with that id, <<>> for None.
get_task(s, task_id) ==
    LET i == IndexOfId(s.tasks, task_id)
    IN  IF i = 0 THEN <<>> ELSE <<s.tasks[i]>>

\* The dependency loop letting a dependency through once it has been claimed.
DependenciesPass_started(s, task) ==
    \A k \in DOMAIN task.dependencies :
        LET dep_task == get_task(s, task.dependencies[k])
        IN  ~(dep_task # <<>> /\ dep_task[1].status = PENDING)

\* The dependency loop of claim_task: TRUE when it runs to its end without
\* `return None`.
DependenciesPass(s, task) ==
    \A k \in DOMAIN task.dependencies :
        LET dep_task == get_task(s, task.dependencies[k])
        IN  ~(dep_task # <<>> /\ dep_task[1].status # COMPLETED)

\* claim_task giving the task the reserved status `claimed`.
claim_task_status_claimed(s, task_id, agent) ==
    LET i == IndexOfId(s.tasks, task_id)
    IN  IF i = 0 THEN Rejected(s)
        ELSE IF s.tasks[i].claimed_by # None /\ s.tasks[i].claimed_by # agent
        THEN Rejected(s)
        ELSE IF ~DependenciesPass(s, s.tasks[i]) THEN Rejected(s)
        ELSE LET s2 == [s EXCEPT !.tasks[i].claimed_by = agent,
                                 !.tasks[i].status = CLAIMED]
             IN  Outcome(s2, <<s2.tasks[i]>>, 1,
                         <<<<"TASK CLAIMED", task_id, agent>>>>)

\* claim_task without the test of line 158: any agent takes a held task.
claim_task_no_holder_check(s, task_id, agent) ==
    LET i == IndexOfId(s.tasks, task_id)
    IN  IF i = 0 THEN Rejected(s)
        ELSE IF ~DependenciesPass(s, s.tasks[i]) THEN Rejected(s)
        ELSE LET s2 == [s EXCEPT !.tasks[i].claimed_by = agent,
                                 !.tasks[i].status = IN_PROGRESS]
             IN  Outcome(s2, <<s2.tasks[i]>>, 1,
                         <<<<"TASK CLAIMED", task_id, agent>>>>)

claim_task(s, task_id, agent) ==
    LET i == IndexOfId(s.tasks, task_id)
    IN  IF i = 0 THEN Rejected(s)
        ELSE IF s.tasks[i].claimed_by # None /\ s.tasks[i].claimed_by # agent
        THEN Rejected(s)
        ELSE IF ~DependenciesPass(s, s.tasks[i]) THEN Rejected(s)
        ELSE LET s2 == [s EXCEPT !.tasks[i].claimed_by = agent,
                                 !.tasks[i].status = IN_PROGRESS]
             IN  Outcome(s2, <<s2.tasks[i]>>, 1,
                         <<<<"TASK CLAIMED", task_id, agent>>>>)

\* complete_task that also lets an unclaimed task through.
complete_task_unclaimed_ok(s, task_id, agent, result, files_modified) ==
    LET i == IndexOfId(s.tasks, task_id)
    IN  IF i = 0 THEN Rejected(s)
        ELSE IF s.tasks[i].claimed_by # None /\ s.tasks[i].claimed_by # agent
        THEN Rejected(s)
        ELSE LET s2 == [s EXCEPT !.tasks[i].status = COMPLETED,
                                 !.tasks[i].result = result,
                                 !.tasks[i].files_modified = files_modified]
             IN  Outcome(s2, <<s2.tasks[i]>>, 1,
                         <<<<"TASK COMPLETED", task_id, agent>>>>)

\* complete_task testing the assignee where line 195 tests the holder.
complete_task_by_assignee(s, task_id, agent, result, files_modified) ==
    LET i == IndexOfId(s.tasks, task_id)
    IN  IF i = 0 THEN Rejected(s)
        ELSE IF s.tasks[i].assigned_to # agent THEN Rejected(s)
        ELSE LET s2 == [s EXCEPT !.tasks[i].status = COMPLETED,
                                 !.tasks[i].result = result,
                                 !.tasks[i].files_modified = files_modified]
             IN  Outcome(s2, <<s2.tasks[i]>>, 1,
                         <<<<"TASK COMPLETED", task_id, agent>>>>)

complete_task(s, task_id, agent, result, files_modified) ==
    LET i == IndexOfId(s.tasks, task_id)
    IN  IF i = 0 THEN Rejected(s)
        ELSE IF s.tasks[i].claimed_by # agent THEN Rejected(s)
        ELSE LET s2 == [s EXCEPT !.tasks[i].status = COMPLETED,
                                 !.tasks[i].result = result,
                                 !.tasks[i].files_modified = files_modified]
             IN  Outcome(s2, <<s2.tasks[i]>>, 1,
                         <<<<"TASK COMPLETED", task_id, agent>>>>)

----------------------------------------------------------------------------
(* state.py: review operations *)

\* `id` and `msg_id` are the tokens drawn for the review and its message.
\* The send_message that ends request_review ("Also send as message").
send_review_request(s, msg_id, review) ==
    send_message(s, msg_id, review.from_agent, review.to_agent,
                 <<"REVIEW REQUEST", review.id, review.content>>,
                 "review_request", "high")

request_review(s, id, msg_id, from_agent, to_agent, content) ==
    LET review == ReviewRequest(id, from_agent, to_agent, content)
        s2 == [s EXCEPT !.reviews = Append(@, review)]
        sent == send_review_request(s2, msg_id, review)
    IN  [Outcome(sent.state, <<review>>, 1 + sent.saves, sent.log)
            EXCEPT !.at_save = s2]

\* The loop of submit_review matching on the id alone.
ReviewIndexFor_any_agent(s, review_id, agent) ==
    IndexOfId(s.reviews, review_id)

\* Index of the first review with that id whose to_agent is `agent`, else 0.
ReviewIndexFor(s, review_id, agent) ==
    LET match(i) == /\ s.reviews[i].id = review_id
                    /\ s.reviews[i].to_agent = agent
    IN  IF \E i \in DOMAIN s.reviews : match(i)
        THEN CHOOSE i \in DOMAIN s.reviews :
                match(i) /\ \A j \in 1..(i - 1) : ~match(j)
        ELSE 0

\* `msg_id` is the token drawn for the review_result message.
submit_review(s, msg_id, review_id, agent, verdict, feedback) ==
    LET i == ReviewIndexFor(s, review_id, agent)
    IN  IF i = 0 THEN Rejected(s)
        ELSE LET s2 == [s EXCEPT !.reviews[i].verdict = verdict,
                                 !.reviews[i].feedback = feedback]
                 sent == send_message(s2, msg_id, agent, s2.reviews[i].from_agent,
                                      <<"REVIEW RESULT", review_id, verdict, feedback>>,
                                      "review_result", "high")
             IN  [Outcome(sent.state, <<sent.state.reviews[i]>>,
                          1 + sent.saves, sent.log) EXCEPT !.at_save = s2]

\* get_pending_reviews keeping a review once it has a verdict.
get_pending_reviews_with_verdict(s, agent) ==
    SelectSeq(s.reviews, LAMBDA r : r.to_agent = agent)

get_pending_reviews(s, agent) ==
    SelectSeq(s.reviews, LAMBDA r : r.to_agent = agent /\ r.verdict = None)

----------------------------------------------------------------------------
(* The JSON document of a ConversationState: model_dump_json and its parse *)

\* Optional[...]: null (no value) or the value.
JsonOptional(x) == IF x = None THEN <<>> ELSE <<x>>
FromJsonOptional(j) == IF j = <<>> THEN None ELSE j[1]

\* dict[str, str]: a JSON object, the set of its <<name, value>> members.
JsonObject(dict) == {<<k, dict[k]>> : k \in DOMAIN dict}
FromJsonObject(object) ==
    [k \in {m[1] : m \in object} |-> (CHOOSE m \in object : m[1] = k)[2]]

MessageJson(msg) == [msg EXCEPT !.to_agent = JsonOptional(@)]
MessageFromJson(j) == [j EXCEPT !.to_agent = FromJsonOptional(@)]

TaskJson(task) ==
    [task EXCEPT !.assigned_to = JsonOptional(@), !.claimed_by = JsonOptional(@),
                 !.result = JsonOptional(@)]

\* The parse of a task that loses its holder (claimed_by comes back None).
TaskFromJson_unclaimed(j) ==
    [j EXCEPT !.assigned_to = FromJsonOptional(@),
              !.claimed_by = None, !.result = FromJsonOptional(@)]

TaskFromJson(j) ==
    [j EXCEPT !.assigned_to = FromJsonOptional(@),
              !.claimed_by = FromJsonOptional(@), !.result = FromJsonOptional(@)]

ReviewRequestJson(review) ==
    [review EXCEPT !.verdict = JsonOptional(@), !.feedback = JsonOptional(@)]
ReviewRequestFromJson(j) ==
    [j EXCEPT !.verdict = FromJsonOptional(@), !.feedback = FromJsonOptional(@)]

VoteJson(vote) == [vote EXCEPT !.votes = JsonObject(@)]
VoteFromJson(j) == [j EXCEPT !.votes = FromJsonObject(@)]

\* model_dump_json with the read flag of every message left out (it comes
\* back as the default, False).
model_dump_json_without_read(s) ==
    [s EXCEPT !.initial_prompt = JsonOptional(@),
              !.messages = [i \in DOMAIN @ |-> [MessageJson(@[i]) EXCEPT !.read = FALSE]],
              !.tasks = [i \in DOMAIN @ |-> TaskJson(@[i])],
              !.reviews = [i \in DOMAIN @ |-> ReviewRequestJson(@[i])],
              !.context = JsonObject(@),
              !.active_votes = [i \in DOMAIN @ |-> VoteJson(@[i])],
              !.escalation_reason = JsonOptional(@)]

\* `self._state.model_dump_json(indent=2)`.
model_dump_json(s) ==
    [s EXCEPT !.initial_prompt = JsonOptional(@),
              !.messages = [i \in DOMAIN @ |-> MessageJson(@[i])],
              !.tasks = [i \in DOMAIN @ |-> TaskJson(@[i])],
              !.reviews = [i \in DOMAIN @ |-> ReviewRequestJson(@[i])],
              !.context = JsonObject(@),
              !.active_votes = [i \in DOMAIN @ |-> VoteJson(@[i])],
              !.escalation_reason = JsonOptional(@)]

\* `ConversationState(**json.loads(...))`.
ConversationStateFromJson(data) ==
    [data EXCEPT !.initial_prompt = FromJsonOptional(@),
                 !.messages = [i \in DOMAIN @ |-> MessageFromJson(@[i])],
                 !.tasks = [i \in DOMAIN @ |-> TaskFromJson(@[i])],
                 !.reviews = [i \in DOMAIN @ |-> ReviewRequestFromJson(@[i])],
                 !.context = FromJsonObject(@),
                 !.active_votes = [i \in DOMAIN @ |-> VoteFromJson(@[i])],
                 !.escalation_reason = FromJsonOptional(@)]

----------------------------------------------------------------------------
(* One StateManager: the engine and its files *)

\* _save keeping what the file holds and memory lacks (a merge instead of
\* an overwrite).
SaveDocument_merge(s, file) ==
    IF file = <<>> THEN <<model_dump_json(s)>>
    ELSE LET missing(coll, old) ==
                 SelectSeq(old, LAMBDA x : \A i \in DOMAIN coll : coll[i].id # x.id)
         IN  <<[model_dump_json(s) EXCEPT
                    !.tasks = @ \o missing(@, file[1].tasks),
                    !.messages = @ \o missing(@, file[1].messages)]>>

\* _save: state.json after the in-memory document `s` has been written over
\* `file` (mode "w": what the file held is gone).
SaveDocument(s, file) == <<model_dump_json(s)>>

\* What a call leaves in `ret`.
Return(op, args, result, raised) ==
    [op |-> op, args |-> args, result |-> result, raised |-> raised]

NoProcs == <<>>

Init ==
    /\ initialized = FALSE
    /\ st = ConversationState
    /\ state_dir = FALSE
    /\ state_file = <<>>
    /\ conversation_log = <<>>
    /\ ret = Return("start", <<>>, <<>>, FALSE)
    /\ claims_won = {}
    /\ procs = NoProcs

\* StateManager.initialize: mkdir, then load the document or create and save one.
Initialize ==
    /\ initialized' = TRUE
    /\ state_dir' = TRUE
    /\ IF state_file # <<>>
       THEN /\ st' = ConversationStateFromJson(state_file[1])
            /\ state_file' = state_file
       ELSE /\ st' = ConversationState
            /\ state_file' = SaveDocument(ConversationState, state_file)
    /\ ret' = Return("initialize", <<>>, <<st'>>, FALSE)
    /\ UNCHANGED <<conversation_log, claims_won, procs>>

\* The `state` property raising RuntimeError: the method stops at its first
\* access to self.state, before any mutation.
Uninitialized(op, args) ==
    /\ ~initialized
    /\ ret' = Return(op, args, <<>>, TRUE)
    /\ UNCHANGED <<initialized, st, state_dir, state_file, conversation_log,
                   claims_won, procs>>

\* A method that ran to its end with outcome `out`: the state it left, the
\* document its last _save wrote, the blocks it appended to the transcript.
\* `track` is FALSE in the specifications that leave the transcript out.
Completed(op, args, out, track) ==
    /\ initialized
    /\ state_dir \/ out.saves = 0
    /\ st' = out.state
    /\ state_file' = IF out.saves > 0 THEN SaveDocument(out.state, state_file)
                      ELSE state_file
    /\ conversation_log' = IF track THEN conversation_log \o out.log
                           ELSE conversation_log
    /\ ret' = Return(op, args, out.result, FALSE)
    /\ UNCHANGED <<initialized, state_dir, procs>>

\* _save raising because the state directory does not exist (reset() was
\* called before initialize()): the method stops at its first _save, with
\* the mutation made in memory and nothing written.
SaveFailed(op, args, out) ==
    /\ initialized
    /\ ~state_dir /\ out.saves > 0
    /\ st' = out.at_save
    /\ ret' = Return(op, args, <<>>, TRUE)
    /\ UNCHANGED <<initialized, state_dir, state_file, conversation_log, procs>>

Method(op, args, out, track) ==
    \/ Uninitialized(op, args)
    \/ Completed(op, args, out, track)
    \/ SaveFailed(op, args, out)

SendMessage(from_agent, to_agent, content, message_type, priority, track) ==
    /\ Len(st.messages) < MaxMessages
    /\ Method("send_message", <<from_agent, to_agent>>,
              send_message(st, NewId(st.messages), from_agent, to_agent, content,
                           message_type, priority),
              track)
    /\ UNCHANGED claims_won

\* get_inbox marking what it returns as read, and saving.
GetInbox_marks_read(agent, unread_only) ==
    LET got == get_inbox(st, agent, unread_only)
        seen == [st EXCEPT !.messages =
                    [i \in DOMAIN @ |->
                        IF \E k \in DOMAIN got : got[k].id = @[i].id
                        THEN [@[i] EXCEPT !.read = TRUE] ELSE @[i]]]
    IN  /\ Method("get_inbox", <<agent, unread_only>>,
                  Outcome(seen, got, 1, <<>>), FALSE)
        /\ UNCHANGED claims_won

GetInbox(agent, unread_only) ==
    /\ Method("get_inbox", <<agent, unread_only>>,
              Outcome(st, get_inbox(st, agent, unread_only), 0, <<>>), FALSE)
    /\ UNCHANGED claims_won

MarkRead(message_id, agent) ==
    /\ Method("mark_read", <<message_id, agent>>,
              mark_read(st, message_id, agent), FALSE)
    /\ UNCHANGED claims_won

CreateTask(created_by, assigned_to, dependencies, track) ==
    /\ Len(st.tasks) < MaxTasks
    /\ Method("create_task", <<created_by, assigned_to, dependencies>>,
              create_task(st, NewId(st.tasks), created_by, assigned_to, dependencies),
              track)
    /\ UNCHANGED claims_won

ClaimTask(task_id, agent, track) ==
    LET out == claim_task(st, task_id, agent)
    IN  /\ Method("claim_task", <<task_id, agent>>, out, track)
        /\ claims_won' = IF initialized /\ state_dir /\ out.result # <<>>
                         THEN claims_won \cup {<<task_id, agent>>}
                         ELSE claims_won

CompleteTask(task_id, agent, result, files_modified, track) ==
    /\ Method("complete_task", <<task_id, agent, result, files_modified>>,
              complete_task(st, task_id, agent, result, files_modified), track)
    /\ UNCHANGED claims_won

RequestReview(from_agent, to_agent, content, track) ==
    /\ Len(st.reviews) < MaxReviews
    /\ Len(st.messages) < MaxMessages
    /\ Method("request_review", <<from_agent, to_agent>>,
              request_review(st, NewId(st.reviews), NewId(st.messages),
                             from_agent, to_agent, content), track)
    /\ UNCHANGED claims_won

SubmitReview(review_id, agent, verdict, feedback, track) ==
    /\ Len(st.messages) < MaxMessages
    /\ Method("submit_review", <<review_id, agent, verdict, feedback>>,
              submit_review(st, NewId(st.messages), review_id, agent, verdict, feedback),
              track)
    /\ UNCHANGED claims_won

\* reset without the unlink of lines 391-392: conversation.md is kept.
Reset_keep_log ==
    /\ st' = ConversationState
    /\ initialized' = TRUE
    /\ IF state_dir
       THEN /\ state_file' = SaveDocument(ConversationState, state_file)
            /\ ret' = Return("reset", <<>>, <<>>, FALSE)
       ELSE /\ ret' = Return("reset", <<>>, <<>>, TRUE)
            /\ UNCHANGED state_file
    /\ claims_won' = {}
    /\ UNCHANGED <<state_dir, conversation_log, procs>>

\* StateManager.reset: never reads self.state; _save needs the directory.
\* A fresh state, saved; then the transcript is removed.
Reset ==
    /\ st' = ConversationState
    /\ initialized' = TRUE
    /\ IF state_dir
       THEN /\ state_file' = SaveDocument(ConversationState, state_file)
            /\ conversation_log' = <<>>
            /\ ret' = Return("reset", <<>>, <<>>, FALSE)
       ELSE /\ ret' = Return("reset", <<>>, <<>>, TRUE)
            /\ UNCHANGED <<state_file, conversation_log>>
    /\ claims_won' = {}
    /\ UNCHANGED <<state_dir, procs>>

----------------------------------------------------------------------------
(* Inputs *)

TaskIds == 1..MaxTasks
TaskAgents == {"claude", "gemini"}
Creators == {"claude"}
Assignees == {None}
\* Dependency lists: none, or one task id (of a task that exists or not).
DependencyLists == {<<>>} \cup {<<d>> : d \in TaskIds}
\* result and files_modified of a complete.
Completions == {<<"r1", <<"a.py">>>>}

\* Task lifecycle of one engine.
NextTasks ==
    \/ Initialize
    \/ \E a \in Creators, to \in Assignees, deps \in DependencyLists :
            CreateTask(a, to, deps, FALSE)
    \/ \E t \in TaskIds, a \in TaskAgents : ClaimTask(t, a, FALSE)
    \/ \E t \in TaskIds, a \in TaskAgents, c \in Completions :
            CompleteTask(t, a, c[1], c[2], FALSE)
    \/ Reset

Spec == Init /\ [][NextTasks]_vars

----------------------------------------------------------------------------
(* Task lifecycle: claims C1 to C5 *)

\* The last call was `op` and ran to its end (it did not raise).
Returned(op) == ret.op = op /\ ~ret.raised

\* C1: once claim(T, A) has succeeded and until reset, T's claimed_by is A
\* and a claim of T by any other agent B is rejected and changes nothing,
\* also after T has been completed.
C1_ClaimExclusivity ==
    \A w \in claims_won :
        /\ get_task(st, w[1]) # <<>>
        /\ get_task(st, w[1])[1].claimed_by = w[2]
        /\ \A b \in AgentRole \ {w[2]} :
              claim_task(st, w[1], b) = Rejected(st)

\* C1 witness: a claim by B was just rejected on a task that A claimed and
\* completed.
C1_Witness ==
    /\ Returned("claim_task")
    /\ ret.result = <<>>
    /\ \E w \in claims_won :
          /\ w[1] = ret.args[1]
          /\ w[2] # ret.args[2]
          /\ get_task(st, w[1])[1].status = COMPLETED

\* C2: a claim succeeds only if every id of the task's dependency list
\* resolves to an existing task whose status is completed.
C2_DependencyGating ==
    (Returned("claim_task") /\ ret.result # <<>>) =>
        \A k \in DOMAIN ret.result[1].dependencies :
            LET dep_task == get_task(st, ret.result[1].dependencies[k])
            IN  dep_task # <<>> /\ dep_task[1].status = COMPLETED

\* C3: complete(T, B, result, files) succeeds exactly when T exists and its
\* claimed_by is B; on success T is completed with the result and files
\* passed, and a rejected call changes nothing.
C3_CompletionOwnership ==
    [][Returned("complete_task")' =>
        LET before == get_task(st, ret'.args[1])
            after  == get_task(st', ret'.args[1])
        IN  /\ (ret'.result # <<>>) <=>
                  (before # <<>> /\ before[1].claimed_by = ret'.args[2])
            /\ ret'.result # <<>> =>
                  /\ after[1].status = COMPLETED
                  /\ after[1].result = ret'.args[3]
                  /\ after[1].files_modified = ret'.args[4]
                  /\ ret'.result = after
            /\ ret'.result = <<>> => st' = st /\ state_file' = state_file
      ]_vars

\* C3 witness: a complete was just rejected on an existing task that nobody
\* has claimed.
C3_Witness ==
    /\ Returned("complete_task")
    /\ ret.result = <<>>
    /\ get_task(st, ret.args[1]) # <<>>
    /\ get_task(st, ret.args[1])[1].claimed_by = None

\* C3 witness of the success case: the holder's complete went through.
C3_WitnessSuccess ==
    /\ Returned("complete_task")
    /\ ret.result # <<>>
    /\ ret.result[1].claimed_by = ret.args[2]

\* C4: once claim(T, A) has succeeded, every later claim(T, A) succeeds.
C4_HolderReclaimSucceeds ==
    (Returned("claim_task") /\ <<ret.args[1], ret.args[2]>> \in claims_won) =>
        ret.result # <<>>

\* C4, on tasks whose dependencies all exist: the holder's re-claim
\* succeeds whatever happened to the dependencies in between.
C4_HolderReclaimResolved ==
    (/\ Returned("claim_task")
     /\ <<ret.args[1], ret.args[2]>> \in claims_won
     /\ \A k \in DOMAIN get_task(st, ret.args[1])[1].dependencies :
           /\ get_task(st, get_task(st, ret.args[1])[1].dependencies[k]) # <<>>
           /\ get_task(st, ret.args[1])[1].dependencies[k] < ret.args[1])
    => ret.result # <<>>

\* C5: every status change an operation makes to a task is
\* pending -> in_progress or in_progress -> completed (so a completed task
\* stays completed for as long as it exists).
C5_StatusForward ==
    [][\A i \in DOMAIN st.tasks, j \in DOMAIN st'.tasks :
          st'.tasks[j].id = st.tasks[i].id =>
              \/ st'.tasks[j].status = st.tasks[i].status
              \/ <<st.tasks[i].status, st'.tasks[j].status>> \in
                    {<<PENDING, IN_PROGRESS>>, <<IN_PROGRESS, COMPLETED>>}
      ]_vars

----------------------------------------------------------------------------
(* Review workflow of one engine: claims C8 and C9 *)

ReviewIds == 1..MaxReviews
ReviewAgents == {"claude", "gemini", "codex"}
Contents == {"text"}
\* verdict and feedback of a submit
Verdicts == {<<"APPROVED", "ok">>, <<"REJECTED", "redo">>}

NextReviews ==
    \/ Initialize
    \/ \E a \in ReviewAgents, to \in ReviewAgents, c \in Contents :
            RequestReview(a, to, c, FALSE)
    \/ \E r \in ReviewIds, a \in ReviewAgents, v \in Verdicts :
            SubmitReview(r, a, v[1], v[2], FALSE)
    \/ Reset

SpecReviews == Init /\ [][NextReviews]_vars

\* C8: submit(R, agent, ...) succeeds only when a review with id R exists
\* whose to_agent is agent; every other submit is rejected and leaves the
\* reviews, the messages and the persisted document as they were.
C8_ReviewGating ==
    [][Returned("submit_review")' =>
        /\ (ret'.result # <<>>) <=>
              \E i \in DOMAIN st.reviews :
                  /\ st.reviews[i].id = ret'.args[1]
                  /\ st.reviews[i].to_agent = ret'.args[2]
        /\ ret'.result = <<>> =>
              /\ st'.reviews = st.reviews
              /\ st'.messages = st.messages
              /\ state_file' = state_file
      ]_vars

\* C8 witness: the requester, who is not the reviewer, just had a submit on
\* his own review rejected.
C8_Witness ==
    /\ Returned("submit_review")
    /\ ret.result = <<>>
    /\ \E i \in DOMAIN st.reviews :
          /\ st.reviews[i].id = ret.args[1]
          /\ st.reviews[i].from_agent = ret.args[2]
          /\ st.reviews[i].to_agent # ret.args[2]
          /\ st.reviews[i].verdict = None

\* C9: once a review has a verdict, no operation changes its verdict or
\* feedback for as long as the review exists (that is, until reset).
C9_VerdictSetOnce ==
    [][\A i \in DOMAIN st.reviews, j \in DOMAIN st'.reviews :
          (st'.reviews[j].id = st.reviews[i].id /\ st.reviews[i].verdict # None) =>
              /\ st'.reviews[j].verdict = st.reviews[i].verdict
              /\ st'.reviews[j].feedback = st.reviews[i].feedback
      ]_vars

----------------------------------------------------------------------------
(* Messaging of one engine: claim C10 *)

MessageIds == 1..MaxMessages
Senders == {"claude", "gemini"}
Recipients == {None, "claude", "gemini"}
Readers == {"claude", "gemini", "codex"}

NextMessages ==
    \/ Initialize
    \/ \E a \in Senders, to \in Recipients, c \in Contents :
            SendMessage(a, to, <<c>>, "response", "normal", FALSE)
    \/ \E a \in Readers, u \in BOOLEAN : GetInbox(a, u)
    \/ \E m \in MessageIds, a \in Senders : MarkRead(m, a)
    \/ Reset

SpecMessages == Init /\ [][NextMessages]_vars

\* Message m is among those inbox(agent, unread_only) returns.
InInbox(m, agent, unread_only) ==
    \E k \in DOMAIN get_inbox(st, agent, unread_only) :
        get_inbox(st, agent, unread_only)[k].id = m.id

\* C10: a broadcast is returned by inbox(a, unreadOnly = false) for every
\* role a other than its sender and never by the sender's inbox; a directed
\* message is returned by inbox(to) when to is not the sender, and by no
\* other inbox.
C10_BroadcastVisibility ==
    \A i \in DOMAIN st.messages :
        LET m == st.messages[i]
        IN  IF m.to_agent = None
            THEN /\ \A a \in AgentRole \ {m.from_agent} : InInbox(m, a, FALSE)
                 /\ \A u \in BOOLEAN : ~InInbox(m, m.from_agent, u)
            ELSE /\ \A a \in AgentRole, u \in BOOLEAN :
                        InInbox(m, a, u) => a = m.to_agent /\ a # m.from_agent
                 /\ m.to_agent # m.from_agent => InInbox(m, m.to_agent, FALSE)

\* C10 witness: inbox(a, unreadOnly = false) just returned a broadcast of
\* another agent that is already marked read, next to a state that also
\* holds a message its sender addressed to itself.
C10_Witness ==
    /\ Returned("get_inbox")
    /\ ret.args[2] = FALSE
    /\ \E k \in DOMAIN ret.result :
          /\ ret.result[k].to_agent = None
          /\ ret.result[k].read
          /\ ret.result[k].from_agent # ret.args[1]
    /\ \E i \in DOMAIN st.messages :
          st.messages[i].to_agent = st.messages[i].from_agent

----------------------------------------------------------------------------
(* Dispatcher processes sharing one state directory (server.py call_tool).  *)
(* Each process has its own StateManager; the files are shared.  A call is  *)
(* cut at its file operations: the exists() test of initialize, the read or *)
(* the first save, the method's in-memory work, its _save.  A file read or  *)
(* write is one step.                                                       *)

Procs == {1, 2}

\* ORCHESTRA_AGENT of each process.
ProcAgent(p) == IF p = 1 THEN "claude" ELSE "gemini"

\* The token drawn in call number c of process p: no two draws agree.
UniqueId(p, c) == Cardinality(Procs) * c + p

NoCall == [op |-> "none", args |-> <<>>]

IdleProc ==
    [pc |-> "idle", st |-> ConversationState, call |-> NoCall,
     result |-> <<>>, calls |-> 0,
     last |-> Return("start", <<>>, <<>>, FALSE)]

InitProcs ==
    /\ initialized = FALSE
    /\ st = ConversationState
    /\ state_dir = FALSE
    /\ state_file = <<>>
    /\ conversation_log = <<>>
    /\ ret = Return("start", <<>>, <<>>, FALSE)
    /\ claims_won = {}
    /\ procs = [p \in Procs |-> IdleProc]

\* The method _handle_tool routes the call to, run on the process's state.
ToolOutcome(p) ==
    LET me == procs[p]
        id == UniqueId(p, me.calls)
    IN  CASE me.call.op = "create_task" ->
                create_task(me.st, id, ProcAgent(p), None, <<>>)
          [] me.call.op = "claim_task" ->
                claim_task(me.st, me.call.args[1], ProcAgent(p))
          [] me.call.op = "send_message" ->
                send_message(me.st, id, ProcAgent(p), None, <<"text">>,
                             "response", "normal")

\* call_tool is entered: initialize makes the directory and tests whether
\* state.json exists.
StartCall(p, op, args) ==
    /\ procs[p].pc = "idle"
    /\ procs[p].calls < MaxCalls
    /\ state_dir' = TRUE
    /\ procs' = [procs EXCEPT
                   ![p].call = [op |-> op, args |-> args],
                   ![p].pc = IF state_file # <<>> THEN "load" ELSE "create",
                   ![p].st = IF state_file # <<>> THEN @ ELSE ConversationState]
    /\ UNCHANGED <<initialized, st, state_file, conversation_log, ret, claims_won>>

\* initialize returning at once on an engine that is already initialized:
\* the process keeps the state of its last call.
Load_keep_state(p) ==
    /\ procs[p].pc = "load"
    /\ procs' = [procs EXCEPT
                   ![p].st = IF procs[p].calls > 0 THEN @
                             ELSE ConversationStateFromJson(state_file[1]),
                   ![p].pc = "method"]
    /\ UNCHANGED <<initialized, st, state_dir, state_file, conversation_log,
                   ret, claims_won>>

\* initialize, the file existed: read and parse it.
Load(p) ==
    /\ procs[p].pc = "load"
    /\ procs' = [procs EXCEPT ![p].st = ConversationStateFromJson(state_file[1]),
                               ![p].pc = "method"]
    /\ UNCHANGED <<initialized, st, state_dir, state_file, conversation_log,
                   ret, claims_won>>

\* initialize, the file did not exist: save the fresh state.
CreateFile(p) ==
    /\ procs[p].pc = "create"
    /\ state_file' = SaveDocument(procs[p].st, state_file)
    /\ procs' = [procs EXCEPT ![p].pc = "method"]
    /\ UNCHANGED <<initialized, st, state_dir, conversation_log, ret, claims_won>>

\* The call of process p returns `result` to its caller.
ReturnTo(p, result) ==
    [procs[p] EXCEPT !.pc = "idle", !.result = <<>>, !.calls = @ + 1,
                     !.last = Return(procs[p].call.op, procs[p].call.args,
                                     result, FALSE)]

WonBy(p, result) ==
    IF procs[p].call.op = "claim_task" /\ result # <<>>
    THEN claims_won \cup {<<procs[p].call.args[1], ProcAgent(p)>>}
    ELSE claims_won

\* The method runs in memory up to its _save, or returns None.
RunMethod(p) ==
    LET out == ToolOutcome(p)
    IN  /\ procs[p].pc = "method"
        /\ IF out.saves = 0
           THEN /\ procs' = [procs EXCEPT ![p] = ReturnTo(p, out.result)]
                /\ claims_won' = WonBy(p, out.result)
           ELSE /\ procs' = [procs EXCEPT ![p].st = out.state,
                                          ![p].result = out.result,
                                          ![p].pc = "save"]
                /\ UNCHANGED claims_won
        /\ UNCHANGED <<initialized, st, state_dir, state_file, conversation_log, ret>>

\* _save, after which the method returns its result.
Save(p) ==
    /\ procs[p].pc = "save"
    /\ state_file' = SaveDocument(procs[p].st, state_file)
    /\ procs' = [procs EXCEPT ![p] = ReturnTo(p, procs[p].result)]
    /\ claims_won' = WonBy(p, procs[p].result)
    /\ UNCHANGED <<initialized, st, state_dir, conversation_log, ret>>

\* The ids of the tasks of the persisted document: what a caller can name.
KnownTaskIds ==
    IF state_file = <<>> THEN {}
    ELSE {state_file[1].tasks[i].id : i \in DOMAIN state_file[1].tasks}

NextProcs ==
    \E p \in Procs :
        \/ StartCall(p, "create_task", <<>>)
        \/ StartCall(p, "send_message", <<>>)
        \/ \E t \in KnownTaskIds : StartCall(p, "claim_task", <<t>>)
        \/ Load(p)
        \/ CreateFile(p)
        \/ RunMethod(p)
        \/ Save(p)

SpecProcs == InitProcs /\ [][NextProcs]_vars

\* C6: two processes acting for different agents never both receive a
\* successful claim for the same task.
C6_CrossProcessExclusivity ==
    \A w1 \in claims_won, w2 \in claims_won : w1[1] = w2[1] => w1[2] = w2[2]

\* C7: nothing orders the processes' saves: each _save replaces the whole
\* document by the saving process's in-memory copy, whatever another process
\* has persisted since that copy was loaded.
C7_WholeDocumentSave ==
    [][\A p \in Procs :
          (procs[p].pc \in {"save", "create"} /\ procs'[p].pc # procs[p].pc) =>
              state_file' = <<model_dump_json(procs[p].st)>>
      ]_vars

\* The object a successful call of p returned is in the persisted document.
Persisted(p) ==
    LET made == procs[p].last.result[1]
        coll == IF procs[p].last.op = "create_task" THEN state_file[1].tasks
                ELSE state_file[1].messages
    IN  \E i \in DOMAIN coll : coll[i].id = made.id

\* C7 witness: every process is idle, a send_message has returned success
\* to its caller, and the message is not in state.json.
C7_Witness ==
    /\ \A p \in Procs : procs[p].pc = "idle"
    /\ \E p \in Procs :
          /\ procs[p].last.op = "send_message"
          /\ procs[p].last.result # <<>>
          /\ ~Persisted(p)

\* C7, the same for a created task.
C7_WitnessTask ==
    /\ \A p \in Procs : procs[p].pc = "idle"
    /\ \E p \in Procs :
          /\ procs[p].last.op = "create_task"
          /\ procs[p].last.result # <<>>
          /\ ~Persisted(p)

----------------------------------------------------------------------------
(* models.py, state.py: votes *)

MaxVotes == 2

\* A dict is a function from its keys; {} is the empty tuple.
DictSet(d, key, value) ==
    [k \in DOMAIN d \cup {key} |-> IF k = key THEN value ELSE d[k]]

Vote(topic, options) == [topic |-> topic, options |-> options, votes |-> <<>>]

\* `choice in vote.options`.
InList(x, list) == \E k \in DOMAIN list : list[k] = x

\* `msg_id` is the token drawn for the broadcast.
create_vote(s, msg_id, topic, options) ==
    LET vote == Vote(topic, options)
        s2 == [s EXCEPT !.active_votes = Append(@, vote)]
        sent == send_message(s2, msg_id, "claude", None,
                             <<"VOTE", topic, options>>, "broadcast", "normal")
    IN  [Outcome(sent.state, <<vote>>, 1 + sent.saves, sent.log)
            EXCEPT !.at_save = s2]

\* The loop of cast_vote: the first vote with that topic whose options hold
\* the choice (a vote with the topic but without the choice is passed over),
\* 0 when the loop runs to its end.
VoteIndexFor(s, topic, choice) ==
    LET match(i) == /\ s.active_votes[i].topic = topic
                    /\ InList(choice, s.active_votes[i].options)
    IN  IF \E i \in DOMAIN s.active_votes : match(i)
        THEN CHOOSE i \in DOMAIN s.active_votes :
                match(i) /\ \A j \in 1..(i - 1) : ~match(j)
        ELSE 0

\* cast_vote assigning before it tests the choice: a choice outside the
\* options is left in the map of a vote with the topic, unsaved.
cast_vote_assign_first(s, topic, agent, choice) ==
    LET i == VoteIndexFor(s, topic, choice)
        named == {k \in DOMAIN s.active_votes : s.active_votes[k].topic = topic}
    IN  IF i = 0
        THEN IF named = {} THEN Rejected(s)
             ELSE Rejected([s EXCEPT !.active_votes[CHOOSE k \in named : TRUE].votes =
                                        DictSet(@, agent, choice)])
        ELSE LET s2 == [s EXCEPT !.active_votes[i].votes = DictSet(@, agent, choice)]
             IN  Outcome(s2, <<s2.active_votes[i]>>, 1, <<>>)

cast_vote(s, topic, agent, choice) ==
    LET i == VoteIndexFor(s, topic, choice)
    IN  IF i = 0 THEN Rejected(s)
        ELSE LET s2 == [s EXCEPT !.active_votes[i].votes = DictSet(@, agent, choice)]
             IN  Outcome(s2, <<s2.active_votes[i]>>, 1, <<>>)

CreateVote(topic, options, track) ==
    /\ Len(st.active_votes) < MaxVotes
    /\ Len(st.messages) < MaxMessages
    /\ Method("create_vote", <<topic, options>>,
              create_vote(st, NewId(st.messages), topic, options), track)
    /\ UNCHANGED claims_won

CastVote(topic, agent, choice, track) ==
    /\ Method("cast_vote", <<topic, agent, choice>>,
              cast_vote(st, topic, agent, choice), track)
    /\ UNCHANGED claims_won

Topics == {"lang", "db"}
OptionLists == {<<"go", "rust">>, <<"rust", "python">>}
Choices == {"go", "rust", "python"}
Voters == {"gemini", "codex"}

\* Voting in one engine.
NextVotes ==
    \/ Initialize
    \/ \E topic \in Topics, options \in OptionLists :
            CreateVote(topic, options, FALSE)
    \/ \E topic \in Topics, a \in Voters, choice \in Choices :
            CastVote(topic, a, choice, FALSE)
    \/ Reset

SpecVotes == Init /\ [][NextVotes]_vars

\* C11: a cast_vote that returns is rejected and leaves every vote and the
\* document as they were when no vote has the topic or none with the topic
\* has the choice among its options; otherwise it returns a vote with that
\* topic and that option whose map now holds the choice for the agent (one
\* entry for the agent, put in place of the agent's earlier entry if there
\* was one), every other entry and every other vote unchanged.
C11_VoteValidity ==
    [][Returned("cast_vote")' =>
        LET topic == ret'.args[1]
            agent == ret'.args[2]
            choice == ret'.args[3]
            Offers(vote) == vote.topic = topic /\ InList(choice, vote.options)
        IN  IF \A i \in DOMAIN st.active_votes : ~Offers(st.active_votes[i])
            THEN /\ ret'.result = <<>>
                 /\ st'.active_votes = st.active_votes
                 /\ state_file' = state_file
            ELSE /\ Len(st'.active_votes) = Len(st.active_votes)
                 /\ \E i \in DOMAIN st.active_votes :
                        LET old == st.active_votes[i].votes
                            new == st'.active_votes[i].votes
                        IN  /\ Offers(st.active_votes[i])
                            /\ ret'.result = <<st'.active_votes[i]>>
                            /\ DOMAIN new = DOMAIN old \cup {agent}
                            /\ new[agent] = choice
                            /\ \A a \in DOMAIN old : a # agent => new[a] = old[a]
                            /\ \A j \in DOMAIN st.active_votes :
                                   j # i => st'.active_votes[j] = st.active_votes[j]
                 /\ state_file' = <<model_dump_json(st')>>]_vars

\* C11 witness: a valid cast has returned the vote; two agents have cast and
\* the map holds one entry for each.
C11_Witness ==
    /\ Returned("cast_vote") /\ ret.result # <<>>
    /\ \E i \in DOMAIN st.active_votes :
          /\ ret.result = <<st.active_votes[i]>>
          /\ DOMAIN st.active_votes[i].votes = Voters
          /\ st.active_votes[i].votes[ret.args[2]] = ret.args[3]

----------------------------------------------------------------------------
(* state.py: shared context, escalation, session *)

\* `self.state.context.get(key)`: <<>> for None.
get_context(s, key) ==
    IF key \in DOMAIN s.context THEN <<s.context[key]>> ELSE <<>>

set_context(s, key, value) ==
    Outcome([s EXCEPT !.context = DictSet(@, key, value)], <<>>, 1, <<>>)

\* `existing + "\n" + value`: a string is the tuple of its pieces, "" is <<>>.
JoinLines(existing, value) == existing \o <<"\n">> \o value

\* `existing + "\n" + value if existing else value`: the empty string is
\* falsy, like a missing key.
append_context(s, key, value) ==
    LET existing == IF key \in DOMAIN s.context THEN s.context[key] ELSE <<>>
    IN  Outcome([s EXCEPT !.context =
                    DictSet(@, key, IF existing # <<>>
                                    THEN JoinLines(existing, value) ELSE value)],
                <<>>, 1, <<>>)

get_all_context(s) == s.context

\* `msg_id` is the token drawn for the broadcast.
\* The send_message that ends escalate_to_human.
send_escalation(s, msg_id, agent, reason) ==
    send_message(s, msg_id, agent, None, <<"ESCALATION", reason>>,
                 "escalation", "urgent")

escalate_to_human(s, msg_id, agent, reason) ==
    LET s2 == [s EXCEPT !.human_intervention_requested = TRUE,
                        !.escalation_reason = reason]
        sent == send_escalation(s2, msg_id, agent, reason)
    IN  [Outcome(sent.state, <<>>, 1 + sent.saves,
                 <<<<"ESCALATION", agent, reason>>>> \o sent.log)
            EXCEPT !.at_save = s2]

\* clear_escalation resetting the flag only.
clear_escalation_keep_reason(s) ==
    Outcome([s EXCEPT !.human_intervention_requested = FALSE], <<>>, 1, <<>>)

clear_escalation(s) ==
    Outcome([s EXCEPT !.human_intervention_requested = FALSE,
                      !.escalation_reason = None], <<>>, 1, <<>>)

set_initial_prompt(s, prompt) ==
    Outcome([s EXCEPT !.initial_prompt = prompt], <<>>, 1,
            <<<<"SESSION", prompt>>>>)

get_status(s) ==
    [message_count |-> Len(s.messages),
     tasks |-> [pending |-> Len(SelectSeq(s.tasks, LAMBDA t : t.status = PENDING)),
                in_progress |-> Len(SelectSeq(s.tasks, LAMBDA t : t.status = IN_PROGRESS)),
                completed |-> Len(SelectSeq(s.tasks, LAMBDA t : t.status = COMPLETED)),
                total |-> Len(s.tasks)],
     pending_reviews |-> Len(SelectSeq(s.reviews, LAMBDA r : r.verdict = None)),
     human_intervention_requested |-> s.human_intervention_requested,
     escalation_reason |-> s.escalation_reason]

SetContext(key, value) ==
    /\ Method("set_context", <<key, value>>, set_context(st, key, value), FALSE)
    /\ UNCHANGED claims_won

GetContext(key) ==
    /\ Method("get_context", <<key>>,
              Outcome(st, get_context(st, key), 0, <<>>), FALSE)
    /\ UNCHANGED claims_won

AppendContext(key, value) ==
    /\ Method("append_context", <<key, value>>,
              append_context(st, key, value), FALSE)
    /\ UNCHANGED claims_won

GetAllContext ==
    /\ Method("get_all_context", <<>>,
              Outcome(st, <<get_all_context(st)>>, 0, <<>>), FALSE)
    /\ UNCHANGED claims_won

EscalateToHuman(agent, reason, track) ==
    /\ Len(st.messages) < MaxMessages
    /\ Method("escalate_to_human", <<agent, reason>>,
              escalate_to_human(st, NewId(st.messages), agent, reason), track)
    /\ UNCHANGED claims_won

ClearEscalation ==
    /\ Method("clear_escalation", <<>>, clear_escalation(st), FALSE)
    /\ UNCHANGED claims_won

SetInitialPrompt(prompt, track) ==
    /\ Method("set_initial_prompt", <<prompt>>,
              set_initial_prompt(st, prompt), track)
    /\ UNCHANGED claims_won

GetStatus ==
    /\ Method("get_status", <<>>, Outcome(st, <<get_status(st)>>, 0, <<>>), FALSE)
    /\ UNCHANGED claims_won

----------------------------------------------------------------------------
(* One engine with every operation and its transcript *)

MaxObjects == 2
MaxText == 3

\* The size of a document: its messages (but for the results of reviews,
\* which MaxMessages bounds), tasks, reviews, votes and context keys, the
\* initial prompt and the escalation when they are set.
Objects(s) ==
    Len(SelectSeq(s.messages, LAMBDA m : m.message_type # "review_result"))
    + Len(s.tasks) + Len(s.reviews) + Len(s.active_votes)
    + Cardinality(DOMAIN s.context)
    + (IF s.initial_prompt # None THEN 1 ELSE 0)
    + (IF s.human_intervention_requested THEN 1 ELSE 0)

\* The state stays within the bounds of the model.
Bounded ==
    /\ Objects(st') <= MaxObjects
    /\ \A k \in DOMAIN st'.context : Len(st'.context[k]) <= MaxText

ObjectIds == 1..MaxObjects
EngineAgents == {"claude", "gemini"}
Keys == {"k"}
Values == {<<"v">>}
EngineTopics == {"lang"}
EngineOptionLists == {<<"go", "rust">>}
EngineChoices == {"go", "python"}
Reasons == {"stuck"}
Prompts == {"build"}

\* Every operation of one engine; the transcript is left out.
NextEngine ==
    \/ Initialize
    \/ \E to \in {None, "gemini"} :
            SendMessage("claude", to, <<"text">>, "response", "normal", FALSE) /\ Bounded
    \/ GetInbox("gemini", TRUE)
    \/ \E m \in ObjectIds : MarkRead(m, "gemini")
    \/ CreateTask("claude", None, <<>>, FALSE) /\ Bounded
    \/ \E t \in ObjectIds, a \in EngineAgents : ClaimTask(t, a, FALSE)
    \/ \E t \in ObjectIds, a \in EngineAgents : CompleteTask(t, a, "r1", <<>>, FALSE)
    \/ RequestReview("claude", "gemini", "text", FALSE) /\ Bounded
    \/ \E r \in ObjectIds, a \in EngineAgents :
            SubmitReview(r, a, "APPROVED", "ok", FALSE) /\ Bounded
    \/ \E k \in Keys, v \in Values : SetContext(k, v) /\ Bounded
    \/ \E k \in Keys : GetContext(k)
    \/ \E k \in Keys, v \in Values : AppendContext(k, v) /\ Bounded
    \/ GetAllContext
    \/ \E topic \in EngineTopics, options \in EngineOptionLists :
            CreateVote(topic, options, FALSE) /\ Bounded
    \/ \E topic \in EngineTopics, choice \in EngineChoices :
            CastVote(topic, "gemini", choice, FALSE)
    \/ \E reason \in Reasons : EscalateToHuman("gemini", reason, FALSE) /\ Bounded
    \/ ClearEscalation
    \/ \E prompt \in Prompts : SetInitialPrompt(prompt, FALSE) /\ Bounded
    \/ GetStatus
    \/ Reset

SpecEngine == Init /\ [][NextEngine]_vars

\* The persisted document is the one the in-memory state dumps to, and
\* parsing it gives the in-memory state back.
InSync ==
    /\ state_file = <<model_dump_json(st)>>
    /\ ConversationStateFromJson(state_file[1]) = st

\* C12: a call that runs to its end on an engine whose document agrees with
\* its memory (or that is not initialized yet) leaves a document that agrees
\* with memory, field for field, and that loads to an equal state.
C12_PersistAndRoundTrip ==
    [][(~ret'.raised /\ (initialized => InSync)) => (initialized' /\ InSync')]_vars

\* C12 witness: after a completed mark_read a read message and a vote with
\* an entry are in memory and in the document, next to fields that are None.
C12_Witness ==
    /\ initialized /\ InSync /\ Returned("mark_read")
    /\ \E i \in DOMAIN st.messages : st.messages[i].read
    /\ \E i \in DOMAIN st.active_votes : DOMAIN st.active_votes[i].votes # {}
    /\ st.escalation_reason = None

----------------------------------------------------------------------------
(* initialize on an engine that is already initialized: claim C13 *)

\* The initialize of a call of process p reads state.json in this step, and
\* p has run a call before (its engine is initialized).
Reloads(p) ==
    procs[p].pc = "load" /\ procs'[p].pc = "method" /\ procs[p].calls > 0

\* C13 as stated: initialize on an initialized engine leaves the in-memory
\* state and the persisted document as they were, whatever another process
\* has written in between.
C13_InitializeIdempotent ==
    [][\A p \in Procs :
          Reloads(p) => procs'[p].st = procs[p].st /\ state_file' = state_file
      ]_vars

\* C13 amended: initialize on an initialized engine leaves the persisted
\* document unchanged and replaces the in-memory state by the state of that
\* document; the state is the one before the call when the document still is
\* the dump of the in-memory state.
C13_InitializeReloads ==
    [][\A p \in Procs :
          Reloads(p) =>
              /\ state_file' = state_file
              /\ state_file # <<>>
              /\ model_dump_json(procs'[p].st) = state_file[1]
              /\ (state_file = <<model_dump_json(procs[p].st)>> =>
                      procs'[p].st = procs[p].st)
      ]_vars

\* C13 witness: a process that holds a task it claimed in an earlier call has
\* run initialize again, the document being the dump of its state.
C13_Witness ==
    \E p \in Procs :
        /\ procs[p].pc = "method" /\ procs[p].calls > 0
        /\ \E i \in DOMAIN procs[p].st.tasks :
              procs[p].st.tasks[i].claimed_by = ProcAgent(p)
        /\ procs[p].last.op = "claim_task" /\ procs[p].last.result # <<>>
        /\ state_file = <<model_dump_json(procs[p].st)>>

----------------------------------------------------------------------------
(* Calls before initialize: claim C14 *)

\* C14: a call other than initialize made on an engine that is not
\* initialized raises, leaves the engine uninitialized and changes neither
\* the in-memory state nor state.json.
C14_UninitializedRejected ==
    [][(~initialized /\ ret'.op # "initialize") =>
          /\ ret'.raised
          /\ ~initialized'
          /\ st' = st
          /\ state_file' = state_file]_vars

----------------------------------------------------------------------------
(* One engine and its transcript *)

MaxLog == 3

\* The document and the transcript stay within the bounds of the model.
BoundedLog == Bounded /\ Len(conversation_log') <= MaxLog

\* Task, review and vote operations with the blocks they append to
\* conversation.md.
NextTranscript ==
    \/ Initialize
    \/ CreateTask("claude", None, <<>>, TRUE) /\ BoundedLog
    \/ \E t \in ObjectIds, a \in EngineAgents : ClaimTask(t, a, TRUE) /\ BoundedLog
    \/ \E t \in ObjectIds, a \in EngineAgents :
            CompleteTask(t, a, "r1", <<>>, TRUE) /\ BoundedLog
    \/ RequestReview("claude", "gemini", "text", TRUE) /\ BoundedLog
    \/ \E r \in ObjectIds, a \in EngineAgents :
            SubmitReview(r, a, "APPROVED", "ok", TRUE) /\ BoundedLog
    \/ \E topic \in EngineTopics, options \in EngineOptionLists :
            CreateVote(topic, options, TRUE) /\ BoundedLog
    \/ \E topic \in EngineTopics, a \in EngineAgents, choice \in EngineChoices :
            CastVote(topic, a, choice, TRUE)
    \/ Reset

SpecTranscript == Init /\ [][NextTranscript]_vars

\* The operations with an expected failure.
Rejecting == {"claim_task", "complete_task", "submit_review", "cast_vote"}

\* C15: on an initialized engine whose directory exists, claim_task,
\* complete_task, submit_review and cast_vote never raise; and when one of
\* them returns the rejected value (None), the in-memory state, state.json
\* and the transcript are what they were before the call.
C15_RejectionChangesNothing ==
    [][(initialized /\ ret'.op \in Rejecting) =>
          /\ state_dir => ~ret'.raised
          /\ (~ret'.raised /\ ret'.result = <<>>) =>
                /\ st' = st
                /\ state_file' = state_file
                /\ conversation_log' = conversation_log]_vars

\* C15 witness: a claim of a task another agent holds has been rejected; the
\* engine holds objects, a document and a transcript.
C15_Witness ==
    /\ initialized /\ Returned("claim_task") /\ ret.result = <<>>
    /\ \E i \in DOMAIN st.tasks :
          /\ st.tasks[i].id = ret.args[1]
          /\ st.tasks[i].claimed_by \notin {None, ret.args[2]}
    /\ state_file = <<model_dump_json(st)>>
    /\ Len(conversation_log) >= 2

\* C15, further cases: a rejected complete_task, submit_review and cast_vote.
C15_WitnessOthers ==
    /\ initialized /\ ~ret.raised /\ ret.result = <<>>
    /\ \/ ret.op = "complete_task" /\ Len(st.tasks) > 0
       \/ ret.op = "submit_review" /\ Len(st.reviews) > 0
       \/ ret.op = "cast_vote" /\ Len(st.active_votes) > 0

----------------------------------------------------------------------------
(* Calls in flight in one dispatcher process (server.py call_tool).  The    *)
(* calls are coroutines on one StateManager: they share _state and the      *)
(* files, and a coroutine can be suspended wherever it awaits a file        *)
(* operation.  A call is cut at those awaits: the read or first save of     *)
(* initialize, the _save after the method's first mutation, the _save of    *)
(* the send_message that ends it.                                           *)

Coroutines == {1, 2}

IdleCoroutine == [pc |-> "idle", op |-> "none", calls |-> 0, id |-> 0]

InitAsync ==
    /\ initialized = FALSE
    /\ st = ConversationState
    /\ state_dir = FALSE
    /\ state_file = <<>>
    /\ conversation_log = <<>>
    /\ ret = Return("start", <<>>, <<>>, FALSE)
    /\ claims_won = {}
    /\ procs = [c \in Coroutines |-> IdleCoroutine]

\* call_tool is entered: initialize makes the directory and tests whether
\* state.json exists; if not, it sets _state to a fresh state before its
\* _save.
Enter(c, op) ==
    /\ procs[c].pc = "idle"
    /\ procs[c].calls < MaxCalls
    /\ state_dir' = TRUE
    /\ IF state_file # <<>>
       THEN /\ procs' = [procs EXCEPT ![c].op = op, ![c].pc = "load"]
            /\ UNCHANGED <<initialized, st>>
       ELSE /\ procs' = [procs EXCEPT ![c].op = op, ![c].pc = "create"]
            /\ st' = ConversationState
            /\ initialized' = TRUE
    /\ UNCHANGED <<state_file, conversation_log, ret, claims_won>>

\* initialize, the file existed: the document is read, parsed and put in
\* _state.
LoadState(c) ==
    /\ procs[c].pc = "load"
    /\ st' = ConversationStateFromJson(state_file[1])
    /\ initialized' = TRUE
    /\ procs' = [procs EXCEPT ![c].pc = "method"]
    /\ UNCHANGED <<state_dir, state_file, conversation_log, ret, claims_won>>

\* A _save of coroutine c: what _state holds now is written.
SaveState(c, from, to) ==
    /\ procs[c].pc = from
    /\ state_file' = SaveDocument(st, state_file)
    /\ procs' = [procs EXCEPT ![c].pc = to]
    /\ UNCHANGED <<initialized, st, state_dir, conversation_log, ret, claims_won>>

\* The call of coroutine c returns.
Finish(c, result) ==
    /\ procs' = [procs EXCEPT ![c].pc = "idle", ![c].calls = @ + 1]
    /\ ret' = Return(procs[c].op, <<c>>, result, FALSE)

\* The method up to its first await: a read returns; request_review and
\* escalate_to_human make their first mutation and go to _save.
Begin(c) ==
    /\ procs[c].pc = "method"
    /\ LET id == UniqueId(c, procs[c].calls)
       IN  CASE procs[c].op = "get_pending_reviews" ->
                  /\ Finish(c, get_pending_reviews(st, "gemini"))
                  /\ UNCHANGED st
             [] procs[c].op = "request_review" ->
                  /\ st' = request_review(st, id, id, "claude", "gemini", "text").at_save
                  /\ procs' = [procs EXCEPT ![c].pc = "save", ![c].id = id]
                  /\ UNCHANGED ret
             [] procs[c].op = "escalate_to_human" ->
                  /\ st' = escalate_to_human(st, id, "gemini", "stuck").at_save
                  /\ procs' = [procs EXCEPT ![c].pc = "save", ![c].id = id]
                  /\ UNCHANGED ret
    /\ UNCHANGED <<initialized, state_dir, state_file, conversation_log, claims_won>>

\* send_message up to its _save: the message is appended to what _state
\* holds now.
Send(c) ==
    /\ procs[c].pc = "send"
    /\ st' = IF procs[c].op = "request_review"
             THEN send_review_request(st, procs[c].id,
                      ReviewRequest(procs[c].id, "claude", "gemini", "text")).state
             ELSE send_escalation(st, procs[c].id, "gemini", "stuck").state
    /\ procs' = [procs EXCEPT ![c].pc = "sent"]
    /\ UNCHANGED <<initialized, state_dir, state_file, conversation_log, ret, claims_won>>

\* The _save of send_message, after which the call returns.
Sent(c) ==
    /\ procs[c].pc = "sent"
    /\ state_file' = SaveDocument(st, state_file)
    /\ Finish(c, <<>>)
    /\ UNCHANGED <<initialized, st, state_dir, conversation_log, claims_won>>

AsyncTools == {"request_review", "escalate_to_human", "get_pending_reviews"}

NextAsync ==
    \E c \in Coroutines :
        \/ \E op \in AsyncTools : Enter(c, op)
        \/ LoadState(c)
        \/ SaveState(c, "create", "method")
        \/ Begin(c)
        \/ SaveState(c, "save", "send")
        \/ Send(c)
        \/ Sent(c)

SpecAsync == InitAsync /\ [][NextAsync]_vars

\* Every mutation of request_review and of escalate_to_human is applied:
\* each review has its review_request message, and a raised escalation flag
\* has its escalation broadcast.
Whole(s) ==
    /\ \A i \in DOMAIN s.reviews :
          \E k \in DOMAIN s.messages :
              /\ s.messages[k].message_type = "review_request"
              /\ s.messages[k].content[2] = s.reviews[i].id
    /\ s.human_intervention_requested =>
          \E k \in DOMAIN s.messages : s.messages[k].message_type = "escalation"

\* C16: a call whose initialize has run and whose method is about to read
\* the state never finds a state holding only a part of another call's
\* mutations.
C16_AtomicOperations ==
    \A c \in Coroutines : procs[c].pc = "method" => Whole(st)

----------------------------------------------------------------------------
(* One engine, task lifecycle: claims C17 and C20 *)

\* The state in memory was never written: reset() ran before the directory
\* existed and every _save since has raised.
Unsaved == initialized /\ ~state_dir

\* C17: across every step of one engine a task held by agent X is still
\* there and still held by X; the only steps after which it is not there are
\* reset and the initialize that replaces a state no _save has written.
C17_ClaimedBySetOnce ==
    [][\A i \in DOMAIN st.tasks :
          st.tasks[i].claimed_by # None =>
              \/ \E j \in DOMAIN st'.tasks :
                    /\ st'.tasks[j].id = st.tasks[i].id
                    /\ st'.tasks[j].claimed_by = st.tasks[i].claimed_by
              \/ ret'.op = "reset"
              \/ ret'.op = "initialize" /\ Unsaved]_vars

\* C17 witness: another agent's claim on a task its holder has completed has
\* just been rejected; the holder is unchanged.
C17_Witness ==
    /\ Returned("claim_task") /\ ret.result = <<>>
    /\ \E i \in DOMAIN st.tasks :
          /\ st.tasks[i].id = ret.args[1]
          /\ st.tasks[i].claimed_by \notin {None, ret.args[2]}
          /\ st.tasks[i].status = COMPLETED

\* C20: on an initialized engine, a claim of an unclaimed task T all of whose
\* dependency ids are ids of tasks does not raise, and it succeeds (returns
\* T, now held by the agent) exactly when every one of those tasks has
\* status completed in the state the claim is made in.
C20_GatingReevaluated ==
    [][(ret'.op = "claim_task" /\ initialized /\ state_dir) =>
          \A i \in DOMAIN st.tasks :
             LET T == st.tasks[i]
                 deps == {T.dependencies[k] : k \in DOMAIN T.dependencies}
             IN  (/\ T.id = ret'.args[1]
                  /\ T.claimed_by = None
                  /\ \A d \in deps : IndexOfId(st.tasks, d) # 0)
                 => /\ ~ret'.raised
                    /\ (ret'.result # <<>>) <=>
                          \A d \in deps :
                              st.tasks[IndexOfId(st.tasks, d)].status = COMPLETED
                    /\ ret'.result # <<>> =>
                          /\ ret'.result = <<st'.tasks[i]>>
                          /\ st'.tasks[i].claimed_by = ret'.args[2]]_vars

\* C20 witness (Scenario A): B depends on A; A has been claimed and
\* completed, and the claim of B has just succeeded.
C20_Witness ==
    /\ Returned("claim_task") /\ ret.result # <<>>
    /\ ret.result[1].dependencies # <<>>
    /\ LET B == ret.result[1]
           a == IndexOfId(st.tasks, B.dependencies[1])
       IN  /\ a # 0
           /\ st.tasks[a].id # B.id
           /\ st.tasks[a].status = COMPLETED
           /\ st.tasks[a].claimed_by = ret.args[2]
           /\ B.claimed_by = ret.args[2] /\ B.status = IN_PROGRESS

\* C20 witness (Scenario A, first step): the claim of B has been rejected
\* while A, which exists, is pending.
C20_WitnessRejected ==
    /\ Returned("claim_task") /\ ret.result = <<>>
    /\ LET b == IndexOfId(st.tasks, ret.args[1])
       IN  /\ b # 0
           /\ st.tasks[b].claimed_by = None
           /\ st.tasks[b].dependencies # <<>>
           /\ LET a == IndexOfId(st.tasks, st.tasks[b].dependencies[1])
              IN  a # 0 /\ a # b /\ st.tasks[a].status = PENDING

----------------------------------------------------------------------------
(* One engine, all operations: claims C18 and C19 *)

\* `before` is a prefix of `after`, each of its messages identical in `after`
\* or differing only by read having gone from false to true.
AppendOnly(before, after) ==
    /\ Len(before) <= Len(after)
    /\ \A i \in DOMAIN before :
          \/ after[i] = before[i]
          \/ ~before[i].read /\ after[i] = [before[i] EXCEPT !.read = TRUE]

\* C18: across every operation other than reset the messages before are a
\* prefix of the messages after, identical but for read going from false to
\* true. (An initialize that replaces a state no _save has written drops
\* the messages of calls that raised.)
C18_MessagesAppendOnly ==
    [][\/ ret'.op = "reset"
       \/ ret'.op = "initialize" /\ Unsaved
       \/ AppendOnly(st.messages, st'.messages)]_vars

\* C18 witness: a mark_read has returned, the first message is read and a
\* message sent after it is unread and in its place.
C18_Witness ==
    /\ Returned("mark_read")
    /\ Len(st.messages) >= 2
    /\ st.messages[1].read /\ st.messages[1].id = ret.args[1]
    /\ ~st.messages[2].read
    /\ state_file = <<model_dump_json(st)>>

\* A session of one engine: every kind of object is made, with the blocks
\* written to conversation.md, and the session is reset.
NextSession ==
    \/ Initialize
    \/ \E prompt \in Prompts : SetInitialPrompt(prompt, TRUE) /\ BoundedLog
    \/ \E to \in {None, "gemini"} :
            SendMessage("claude", to, <<"text">>, "task", "normal", TRUE) /\ BoundedLog
    \/ CreateTask("claude", None, <<>>, TRUE) /\ BoundedLog
    \/ RequestReview("claude", "gemini", "text", TRUE) /\ BoundedLog
    \/ \E topic \in EngineTopics, options \in EngineOptionLists :
            CreateVote(topic, options, TRUE) /\ BoundedLog
    \/ \E k \in Keys, v \in Values : SetContext(k, v) /\ BoundedLog
    \/ \E a \in EngineAgents, reason \in Reasons :
            EscalateToHuman(a, reason, TRUE) /\ BoundedLog
    \/ Reset

SpecSession == Init /\ [][NextSession]_vars

\* C19: after a reset the in-memory state has no messages, tasks, reviews,
\* votes or context, no prompt, the escalation flag false and the reason
\* absent, and conversation.md is gone; after a reset that returned,
\* state.json is the document of this empty state.
C19_ResetEmptiesEverything ==
    [][ret'.op = "reset" =>
          /\ st'.messages = <<>> /\ st'.tasks = <<>> /\ st'.reviews = <<>>
          /\ st'.active_votes = <<>> /\ DOMAIN st'.context = {}
          /\ st'.initial_prompt = None
          /\ ~st'.human_intervention_requested
          /\ st'.escalation_reason = None
          /\ conversation_log' = <<>>
          /\ ~ret'.raised =>
                /\ state_file' # <<>>
                /\ ConversationStateFromJson(state_file'[1]) = st']_vars

\* C19 witness: a reset has returned on an engine that was initialized; the
\* document is the one of the empty state.
C19_Witness ==
    /\ Returned("reset") /\ state_dir
    /\ st = ConversationState
    /\ state_file = <<model_dump_json(st)>>
    /\ conversation_log = <<>>

----------------------------------------------------------------------------
(* One engine, task graph: claim C21 *)

\* The indices of the tasks whose ids the tasks at `from` list as
\* dependencies.
DependedOn(s, from) ==
    {j \in DOMAIN s.tasks :
        \E i \in from : InList(s.tasks[j].id, s.tasks[i].dependencies)}

\* The tasks reached from `from` through at most n dependency links.
RECURSIVE ReachedFrom(_, _, _)
ReachedFrom(s, from, n) ==
    IF n = 0 THEN from
    ELSE ReachedFrom(s, from \cup DependedOn(s, from), n - 1)

\* Task i lies on a dependency cycle: it is reached from the tasks it
\* depends on.
OnCycle(s, i) == i \in ReachedFrom(s, DependedOn(s, {i}), Len(s.tasks))

\* C21: in every reachable state no task on a dependency cycle has been
\* claimed (it is unheld and pending).
C21_CycleUnclaimable ==
    \A i \in DOMAIN st.tasks :
        OnCycle(st, i) => st.tasks[i].claimed_by = None /\ st.tasks[i].status = PENDING

----------------------------------------------------------------------------
(* Votes with one topic: claim C22 *)

\* The first-created vote with the topic (0 when there is none).
FirstVoteWithTopic(s, topic) ==
    LET named == {i \in DOMAIN s.active_votes : s.active_votes[i].topic = topic}
    IN  IF named = {} THEN 0
        ELSE CHOOSE i \in named : \A j \in named : i <= j

\* C22: when the cast's topic is the topic of two votes, a cast_vote that
\* returns has recorded the choice in the first-created of them if that
\* vote offers the choice and has been rejected otherwise; every later vote
\* with the topic has the map it had.
C22_FirstVoteOnly ==
    [][Returned("cast_vote")' =>
        LET topic == ret'.args[1]
            agent == ret'.args[2]
            choice == ret'.args[3]
            first == FirstVoteWithTopic(st, topic)
            named == {i \in DOMAIN st.active_votes : st.active_votes[i].topic = topic}
        IN  Cardinality(named) >= 2 =>
              /\ IF InList(choice, st.active_votes[first].options)
                 THEN /\ ret'.result = <<st'.active_votes[first]>>
                      /\ agent \in DOMAIN st'.active_votes[first].votes
                      /\ st'.active_votes[first].votes[agent] = choice
                 ELSE /\ ret'.result = <<>>
                      /\ st'.active_votes = st.active_votes
              /\ \A j \in named \ {first} :
                    st'.active_votes[j].votes = st.active_votes[j].votes]_vars

----------------------------------------------------------------------------
(* Reads of the message list: claims C23 and C24 *)

\* The k-th smallest member of a set of positions.
Nth(positions, k) ==
    CHOOSE i \in positions : Cardinality({j \in positions : j <= i}) = k

\* C23: the list get_inbox(agent, unread_only) returned holds, in the order
\* of the message list, exactly the stored messages addressed to the agent
\* or to nobody, not sent by the agent, and unread when unread_only.
C23_InboxContents ==
    Returned("get_inbox") =>
        LET agent == ret.args[1]
            unread_only == ret.args[2]
            wanted == {i \in DOMAIN st.messages :
                          /\ st.messages[i].to_agent \in {agent, None}
                          /\ st.messages[i].from_agent # agent
                          /\ unread_only => ~st.messages[i].read}
        IN  /\ Len(ret.result) = Cardinality(wanted)
            /\ \A k \in DOMAIN ret.result :
                  ret.result[k] = st.messages[Nth(wanted, k)]

\* C23 witness: an unread-only inbox returned two messages in the order they
\* were sent, a broadcast among them, leaving out a message to the agent
\* that is read.
C23_Witness ==
    /\ Returned("get_inbox") /\ ret.args[2]
    /\ Len(ret.result) = 2
    /\ ret.result[1].id < ret.result[2].id
    /\ \E k \in DOMAIN ret.result : ret.result[k].to_agent = None
    /\ \E i \in DOMAIN st.messages :
          /\ st.messages[i].read
          /\ st.messages[i].to_agent = ret.args[1]
          /\ st.messages[i].from_agent # ret.args[1]

----------------------------------------------------------------------------
(* state.py: the remaining read operations *)

\* messages[-limit:]. A positive limit counts from the end (the whole list
\* when limit >= n); -0 is 0, so limit 0 is messages[0:]; a negative limit
\* is messages[|limit|:].
get_conversation(s, limit) ==
    LET n == Len(s.messages)
        start == IF limit > 0
                 THEN (IF limit >= n THEN 0 ELSE n - limit)
                 ELSE (IF -limit >= n THEN n ELSE -limit)
    IN  SubSeq(s.messages, start + 1, n)

\* get_tasks: `if status:` and `if assigned_to:` filter, None does not.
get_tasks(s, status, assigned_to) ==
    LET by_status == IF status # None
                     THEN SelectSeq(s.tasks, LAMBDA t : t.status = status)
                     ELSE s.tasks
    IN  IF assigned_to # None
        THEN SelectSeq(by_status, LAMBDA t : t.assigned_to = assigned_to)
        ELSE by_status

GetConversation(limit) ==
    /\ Method("get_conversation", <<limit>>,
              Outcome(st, get_conversation(st, limit), 0, <<>>), FALSE)
    /\ UNCHANGED claims_won

GetTask(task_id) ==
    /\ Method("get_task", <<task_id>>, Outcome(st, get_task(st, task_id), 0, <<>>), FALSE)
    /\ UNCHANGED claims_won

GetTasks(status, assigned_to) ==
    /\ Method("get_tasks", <<status, assigned_to>>,
              Outcome(st, get_tasks(st, status, assigned_to), 0, <<>>), FALSE)
    /\ UNCHANGED claims_won

GetPendingReviews(agent) ==
    /\ Method("get_pending_reviews", <<agent>>,
              Outcome(st, get_pending_reviews(st, agent), 0, <<>>), FALSE)
    /\ UNCHANGED claims_won

----------------------------------------------------------------------------
(* One engine, its reads and its transcript *)

MaxLimit == 3

\* limit of a get_conversation call.
Limits == 0..MaxLimit

\* A few writes of each kind, with their transcript blocks, and every read.
NextReads ==
    \/ Initialize
    \/ \E to \in {None, "gemini"} :
            SendMessage("claude", to, <<"text">>, "task", "normal", TRUE) /\ BoundedLog
    \/ \E m \in ObjectIds : MarkRead(m, "gemini")
    \/ \E to \in {None, "gemini"} : CreateTask("claude", to, <<>>, TRUE) /\ BoundedLog
    \/ \E t \in ObjectIds : ClaimTask(t, "gemini", TRUE) /\ BoundedLog
    \/ RequestReview("claude", "gemini", "text", TRUE) /\ BoundedLog
    \/ \E k \in Keys, v \in Values : SetContext(k, v) /\ BoundedLog
    \/ \E a \in EngineAgents, u \in BOOLEAN : GetInbox(a, u)
    \/ \E limit \in Limits : GetConversation(limit)
    \/ \E t \in ObjectIds : GetTask(t)
    \/ \E status \in {None, PENDING, IN_PROGRESS}, to \in {None, "gemini"} :
            GetTasks(status, to)
    \/ \E a \in EngineAgents : GetPendingReviews(a)
    \/ \E k \in Keys : GetContext(k)
    \/ GetAllContext
    \/ GetStatus
    \/ Reset

SpecReads == Init /\ [][NextReads]_vars

\* C24: the list get_conversation(limit) returned, for limit >= 0, is the
\* last min(limit, n) of the n stored messages, in their order.
C24_ConversationLimit ==
    (Returned("get_conversation") /\ ret.args[1] >= 0) =>
        LET n == Len(st.messages)
            m == IF ret.args[1] < n THEN ret.args[1] ELSE n
        IN  /\ Len(ret.result) = m
            /\ \A k \in 1..m : ret.result[k] = st.messages[n - m + k]

\* The read operations.
ReadOperations ==
    {"get_inbox", "get_conversation", "get_task", "get_tasks",
     "get_pending_reviews", "get_context", "get_all_context", "get_status"}

\* C25: a read operation leaves the in-memory state (every read flag
\* included), state.json and the transcript as they were.
C25_ReadsChangeNothing ==
    [][ret'.op \in ReadOperations =>
          /\ st' = st
          /\ state_file' = state_file
          /\ conversation_log' = conversation_log
          /\ initialized => ~ret'.raised]_vars

\* C25 witness: an unread-only inbox has returned a message; it is still
\* unread in memory and in state.json, and the transcript holds its block.
C25_Witness ==
    /\ Returned("get_inbox") /\ ret.args[2]
    /\ Len(ret.result) >= 1
    /\ \E i \in DOMAIN st.messages :
          st.messages[i] = ret.result[1] /\ ~st.messages[i].read
    /\ state_file = <<model_dump_json(st)>>
    /\ conversation_log # <<>>

\* C25 witness: get_status has returned on a state with messages and tasks.
C25_WitnessStatus ==
    /\ Returned("get_status")
    /\ ret.result[1].message_count >= 1
    /\ ret.result[1].tasks.total >= 1

----------------------------------------------------------------------------
(* Reviews and their messages: claims C26 and C27 *)

\* The step appended exactly one message, and nothing else changed in the
\* message list.
OneMessageAppended ==
    /\ Len(st'.messages) = Len(st.messages) + 1
    /\ SubSeq(st'.messages, 1, Len(st.messages)) = st.messages

\* What a request_review that returned has done: one review without verdict
\* appended, one high-priority review_request message from `from` to `to`.
RequestEffect ==
    LET review == st'.reviews[Len(st'.reviews)]
        msg == st'.messages[Len(st'.messages)]
    IN  /\ Len(st'.reviews) = Len(st.reviews) + 1
        /\ SubSeq(st'.reviews, 1, Len(st.reviews)) = st.reviews
        /\ ret'.result = <<review>>
        /\ review.verdict = None
        /\ review.from_agent = ret'.args[1] /\ review.to_agent = ret'.args[2]
        /\ OneMessageAppended
        /\ msg.message_type = "review_request" /\ msg.priority = "high"
        /\ msg.from_agent = ret'.args[1] /\ msg.to_agent = ret'.args[2]

\* What a successful submit_review has done: one review_result message from
\* the review's reviewer to its requester appended, no review added.
SubmitEffect ==
    LET review == ret'.result[1]
        msg == st'.messages[Len(st'.messages)]
    IN  /\ Len(st'.reviews) = Len(st.reviews)
        /\ OneMessageAppended
        /\ msg.message_type = "review_result"
        /\ msg.from_agent = review.to_agent /\ msg.to_agent = review.from_agent

\* The message just appended is in the inbox of the review's requester.
ResultInRequesterInbox ==
    \E k \in DOMAIN get_inbox(st', ret'.result[1].from_agent, TRUE) :
        get_inbox(st', ret'.result[1].from_agent, TRUE)[k]
            = st'.messages[Len(st'.messages)]

\* C26 as stated: request_review appends one review without verdict and one
\* high-priority review_request message from `from` to `to`; a successful
\* submit_review appends one review_result message from the reviewer to the
\* requester, and that message is in the requester's inbox.
C26_ReviewMessages ==
    [][/\ Returned("request_review")' => RequestEffect
       /\ (Returned("submit_review")' /\ ret'.result # <<>>) =>
             SubmitEffect /\ ResultInRequesterInbox]_vars

\* C26 amended: as above, and the review_result message is in the
\* requester's inbox exactly when the requester is not the reviewer (no
\* inbox returns a message to its own sender).
C26_ReviewMessagesDelivered ==
    [][/\ Returned("request_review")' => RequestEffect
       /\ (Returned("submit_review")' /\ ret'.result # <<>>) =>
             /\ SubmitEffect
             /\ ResultInRequesterInbox <=>
                   ret'.result[1].from_agent # ret'.result[1].to_agent]_vars

\* C26 witness (Scenario D): the reviewer's submit has succeeded and the
\* requester, another agent, has the unread review_result as its last
\* inbox message.
C26_Witness ==
    /\ Returned("submit_review") /\ ret.result # <<>>
    /\ ret.result[1].from_agent # ret.result[1].to_agent
    /\ ret.result[1].to_agent = ret.args[2]
    /\ LET inbox == get_inbox(st, ret.result[1].from_agent, TRUE)
       IN  /\ inbox # <<>>
           /\ inbox[Len(inbox)].message_type = "review_result"
           /\ inbox[Len(inbox)].from_agent = ret.args[2]

\* Reviews of one engine with the reads that report them.
NextPending ==
    \/ Initialize
    \/ \E a \in EngineAgents, to \in EngineAgents :
            RequestReview(a, to, "text", FALSE)
    \/ \E r \in ReviewIds, a \in EngineAgents, v \in Verdicts :
            SubmitReview(r, a, v[1], v[2], FALSE)
    \/ \E a \in EngineAgents : GetPendingReviews(a)
    \/ GetStatus
    \/ Reset

SpecPending == Init /\ [][NextPending]_vars

\* Review `review` is in the list get_pending_reviews(agent) gives on s.
Pending(s, review, agent) ==
    \E k \in DOMAIN get_pending_reviews(s, agent) :
        get_pending_reviews(s, agent)[k].id = review.id

\* C27: (1) the list get_pending_reviews(agent) returned holds, in order,
\* exactly the reviews addressed to the agent that have no verdict;
\* (2) get_status reports as pending_reviews the number of reviews without
\* verdict; (3) a review is pending for its reviewer right after its
\* request; (4) a pending review stays pending across every step but a
\* submit_review of it by its reviewer (and the steps that drop the state:
\* reset, and initialize on a state that was never saved); (5) a review
\* with a verdict is pending for nobody after any step.
C27_PendingReviews ==
    [][/\ Returned("get_pending_reviews")' =>
             LET wanted == {i \in DOMAIN st'.reviews :
                               /\ st'.reviews[i].to_agent = ret'.args[1]
                               /\ st'.reviews[i].verdict = None}
             IN  /\ Len(ret'.result) = Cardinality(wanted)
                 /\ \A k \in DOMAIN ret'.result :
                       ret'.result[k] = st'.reviews[Nth(wanted, k)]
       /\ Returned("get_status")' =>
             ret'.result[1].pending_reviews =
                 Cardinality({i \in DOMAIN st'.reviews : st'.reviews[i].verdict = None})
       /\ Returned("request_review")' =>
             Pending(st', ret'.result[1], ret'.result[1].to_agent)
       /\ \A i \in DOMAIN st.reviews :
             LET review == st.reviews[i]
             IN  IF Pending(st, review, review.to_agent)
                 THEN \/ Pending(st', review, review.to_agent)
                      \/ /\ ret'.op = "submit_review"
                         /\ ret'.args[1] = review.id
                         /\ ret'.args[2] = review.to_agent
                      \/ ret'.op = "reset"
                      \/ ret'.op = "initialize" /\ Unsaved
                 ELSE \A a \in AgentRole : ~Pending(st', review, a)]_vars

\* C27 witness: the reviewer's pending list has just been returned with one
\* review in it while another review addressed to the same reviewer has a
\* verdict.
C27_Witness ==
    /\ Returned("get_pending_reviews")
    /\ Len(ret.result) = 1
    /\ \E i \in DOMAIN st.reviews :
          /\ st.reviews[i].to_agent = ret.args[1]
          /\ st.reviews[i].verdict # None
          /\ st.reviews[i].id # ret.result[1].id

\* C27 witness: get_status has reported one pending review out of two.
C27_WitnessStatus ==
    /\ Returned("get_status")
    /\ ret.result[1].pending_reviews = 1
    /\ Len(st.reviews) = 2

----------------------------------------------------------------------------
(* Escalation: claim C28 *)

\* C28: an escalate_to_human(agent, reason) that returned has set the flag
\* and the reason and appended one urgent escalation broadcast from the
\* agent, which every other agent's inbox returns (and the agent's own does
\* not); a clear_escalation that returned has set the flag to false and the
\* reason to None and left the messages as they were.
C28_Escalation ==
    [][/\ Returned("escalate_to_human")' =>
             LET agent == ret'.args[1]
                 msg == st'.messages[Len(st'.messages)]
             IN  /\ st'.human_intervention_requested
                 /\ st'.escalation_reason = ret'.args[2]
                 /\ OneMessageAppended
                 /\ msg.message_type = "escalation" /\ msg.priority = "urgent"
                 /\ msg.from_agent = agent /\ msg.to_agent = None
                 /\ ~msg.read
                 /\ \A a \in AgentRole :
                       a # agent <=>
                          \E k \in DOMAIN get_inbox(st', a, TRUE) :
                              get_inbox(st', a, TRUE)[k] = msg
       /\ Returned("clear_escalation")' =>
             /\ ~st'.human_intervention_requested
             /\ st'.escalation_reason = None
             /\ st'.messages = st.messages]_vars

\* C28 witness: an escalation has been cleared; its broadcast is still in
\* the message list.
C28_Witness ==
    /\ Returned("clear_escalation")
    /\ ~st.human_intervention_requested /\ st.escalation_reason = None
    /\ \E i \in DOMAIN st.messages :
          /\ st.messages[i].message_type = "escalation"
          /\ st.messages[i].to_agent = None

\* C28 witness: an escalation has just been raised.
C28_WitnessRaised ==
    /\ Returned("escalate_to_human")
    /\ st.human_intervention_requested /\ st.escalation_reason = ret.args[2]
    /\ st.messages # <<>>
    /\ st.messages[Len(st.messages)].message_type = "escalation"

----------------------------------------------------------------------------
(* One engine and conversation.md: claim C29 *)

\* Messages, task lifecycle, escalation and session start with the blocks
\* they append, and reset.
NextLog ==
    \/ Initialize
    \/ \E prompt \in Prompts : SetInitialPrompt(prompt, TRUE) /\ BoundedLog
    \/ \E to \in {None, "gemini"} :
            SendMessage("claude", to, <<"text">>, "task", "normal", TRUE) /\ BoundedLog
    \/ CreateTask("claude", None, <<>>, TRUE) /\ BoundedLog
    \/ \E t \in ObjectIds, a \in EngineAgents : ClaimTask(t, a, TRUE) /\ BoundedLog
    \/ \E t \in ObjectIds, a \in EngineAgents :
            CompleteTask(t, a, "r1", <<>>, TRUE) /\ BoundedLog
    \/ RequestReview("claude", "gemini", "text", TRUE) /\ BoundedLog
    \/ \E a \in EngineAgents, reason \in Reasons :
            EscalateToHuman(a, reason, TRUE) /\ BoundedLog
    \/ Reset

SpecLog == Init /\ [][NextLog]_vars

\* The message blocks of a transcript, in order.
MessageBlocks(log) == SelectSeq(log, LAMBDA block : block[1] = "MESSAGE")

\* The transcript grew by exactly these blocks.
Logged(blocks) == conversation_log' = conversation_log \o blocks

\* C29: (1) every operation other than reset leaves the transcript it found
\* as a prefix of the transcript it leaves; (2) on an engine whose state has
\* been saved, the message blocks of the transcript are, one for one and in
\* order, the blocks of the messages in the state; (3) a create_task,
\* claim_task, complete_task or escalate_to_human that succeeded has put
\* its block at the end of the transcript (the escalation's block followed
\* by the block of its broadcast).
C29_TranscriptAppendOnly ==
    [][/\ ret'.op # "reset" =>
             /\ Len(conversation_log) <= Len(conversation_log')
             /\ SubSeq(conversation_log', 1, Len(conversation_log)) = conversation_log
       /\ (initialized' /\ state_dir') =>
             MessageBlocks(conversation_log')
                 = [i \in DOMAIN st'.messages |-> MessageBlock(st'.messages[i])]
       /\ Returned("create_task")' =>
             Logged(<<<<"TASK CREATED", ret'.result[1].id, ret'.args[1]>>>>)
       /\ (Returned("claim_task")' /\ ret'.result # <<>>) =>
             Logged(<<<<"TASK CLAIMED", ret'.args[1], ret'.args[2]>>>>)
       /\ (Returned("complete_task")' /\ ret'.result # <<>>) =>
             Logged(<<<<"TASK COMPLETED", ret'.args[1], ret'.args[2]>>>>)
       /\ Returned("escalate_to_human")' =>
             Logged(<<<<"ESCALATION", ret'.args[1], ret'.args[2]>>,
                      MessageBlock(st'.messages[Len(st'.messages)])>>)]_vars

\* C29 witness: a task was created, claimed and completed and the transcript
\* holds the three blocks in that order.
C29_Witness ==
    /\ Returned("complete_task") /\ ret.result # <<>>
    /\ Len(conversation_log) = 3
    /\ conversation_log[1][1] = "TASK CREATED"
    /\ conversation_log[2][1] = "TASK CLAIMED"
    /\ conversation_log[3][1] = "TASK COMPLETED"

\* C29 witness: a task and then a message were made; the transcript holds
\* the task's block and then the message's.
C29_WitnessMessages ==
    /\ Len(st.messages) = 1
    /\ Len(conversation_log) = 2
    /\ conversation_log[1][1] = "TASK CREATED"
    /\ conversation_log[2] = MessageBlock(st.messages[1])

----------------------------------------------------------------------------
(* Task statuses: claim C30 *)

\* C30: in every reachable state each task's status is pending, in_progress
\* or completed, in memory and in state.json; and the counts a get_status
\* has returned for these three add up to the total it returned, which is
\* the number of tasks.
C30_ReservedStatusesUnreachable ==
    /\ \A i \in DOMAIN st.tasks :
          st.tasks[i].status \in {PENDING, IN_PROGRESS, COMPLETED}
    /\ state_file # <<>> =>
          \A i \in DOMAIN state_file[1].tasks :
              state_file[1].tasks[i].status \in {PENDING, IN_PROGRESS, COMPLETED}
    /\ Returned("get_status") =>
          LET counts == ret.result[1].tasks
          IN  /\ counts.pending + counts.in_progress + counts.completed = counts.total
              /\ counts.total = Len(st.tasks)

\* C30 witness: get_status has counted one task in progress and one
\* completed.
C30_Witness ==
    /\ Returned("get_status")
    /\ ret.result[1].tasks.in_progress = 1
    /\ ret.result[1].tasks.completed = 1
    /\ ret.result[1].tasks.total = 2

----------------------------------------------------------------------------
(* Shared context: claim C31 *)

\* Two keys; the values include the empty string.
ContextKeys == {"k", "j"}
ContextValues == {<<>>, <<"v">>, <<"w">>}

NextContext ==
    \/ Initialize
    \/ \E k \in ContextKeys, v \in ContextValues : SetContext(k, v) /\ Bounded
    \/ \E k \in ContextKeys, v \in ContextValues : AppendContext(k, v) /\ Bounded
    \/ \E k \in ContextKeys : GetContext(k)
    \/ GetAllContext
    \/ Reset

SpecContext == Init /\ [][NextContext]_vars

\* The step set key ret'.args[1] to `value` and left every other key alone.
ContextKeyBecomes(value) ==
    /\ DOMAIN st'.context = DOMAIN st.context \cup {ret'.args[1]}
    /\ st'.context[ret'.args[1]] = value
    /\ \A k \in DOMAIN st.context : k # ret'.args[1] => st'.context[k] = st.context[k]

\* C31: a set_context(k, v) that returned has stored v under k and left
\* every other key as it was; an append_context(k, v) that returned has
\* stored, under a key that was present, the existing value, a newline and
\* v (whatever the existing value, the empty string included) and, under an
\* absent key, v; get_context(k) returns the stored value, or None for an
\* absent key.
C31_ContextLastWriteWins ==
    [][/\ Returned("set_context")' => ContextKeyBecomes(ret'.args[2])
       /\ Returned("append_context")' =>
             ContextKeyBecomes(
                 IF ret'.args[1] \in DOMAIN st.context
                 THEN st.context[ret'.args[1]] \o <<"\n">> \o ret'.args[2]
                 ELSE ret'.args[2])
       /\ Returned("get_context")' =>
             ret'.result = IF ret'.args[1] \in DOMAIN st'.context
                           THEN <<st'.context[ret'.args[1]]>> ELSE <<>>]_vars

----------------------------------------------------------------------------
(* Task invariants: claims C32 and C33 *)

\* C32: in every reachable state each task that is in progress or completed
\* has every id of its dependency list resolving to a completed task.
C32_DependencySafety ==
    \A i \in DOMAIN st.tasks :
        st.tasks[i].status \in {IN_PROGRESS, COMPLETED} =>
            \A k \in DOMAIN st.tasks[i].dependencies :
                LET dep_task == get_task(st, st.tasks[i].dependencies[k])
                IN  dep_task # <<>> /\ dep_task[1].status = COMPLETED

\* C33: in every reachable state a task is pending exactly when nobody holds
\* it, and a completed task has a holder and a result.
C33_StatusOwnership ==
    \A i \in DOMAIN st.tasks :
        /\ st.tasks[i].status = PENDING <=> st.tasks[i].claimed_by = None
        /\ st.tasks[i].status = COMPLETED =>
              st.tasks[i].claimed_by # None /\ st.tasks[i].result # None

\* C33 witness: one task is pending and unheld, one is held and in progress
\* again after its holder completed it (its result is kept).
C33_Witness ==
    /\ Len(st.tasks) = 2
    /\ \E i, j \in DOMAIN st.tasks :
          /\ st.tasks[i].status = PENDING /\ st.tasks[i].claimed_by = None
          /\ st.tasks[j].status = IN_PROGRESS /\ st.tasks[j].result # None

\* C33 witness: a task is completed, with holder and result.
C33_WitnessCompleted ==
    /\ Returned("complete_task") /\ ret.result # <<>>
    /\ ret.result[1].status = COMPLETED
    /\ ret.result[1].claimed_by = ret.args[2]
    /\ ret.result[1].result # None

----------------------------------------------------------------------------
(* Read flags: claim C34 *)

\* C34: a mark_read(id, a) that returned has taken nothing out of the
\* unread inbox of any other agent b: every message inbox(b, unread only)
\* gave before the call it gives after it, still unread.
C34_ReadPerAgent ==
    [][Returned("mark_read")' =>
          \A b \in AgentRole \ {ret'.args[2]} :
             \A k \in DOMAIN get_inbox(st, b, TRUE) :
                \E n \in DOMAIN get_inbox(st', b, TRUE) :
                    get_inbox(st', b, TRUE)[n] = get_inbox(st, b, TRUE)[k]]_vars

----------------------------------------------------------------------------
(* The outcome of a task: claim C35 *)

\* result and files_modified of a complete_task call.
Outcomes == {<<"r1", <<>>>>, <<"r2", <<"a.py">>>>}

\* Tasks without dependencies, completed with either outcome.
NextOutcome ==
    \/ Initialize
    \/ CreateTask("claude", None, <<>>, FALSE)
    \/ \E t \in TaskIds, a \in TaskAgents : ClaimTask(t, a, FALSE)
    \/ \E t \in TaskIds, a \in TaskAgents, c \in Outcomes :
            CompleteTask(t, a, c[1], c[2], FALSE)
    \/ Reset

SpecOutcome == Init /\ [][NextOutcome]_vars

\* C35: across every step a task that has a result (a complete_task on it
\* has succeeded) and is still there has the same result and the same
\* files_modified.
C35_OutcomeFinal ==
    [][\A i \in DOMAIN st.tasks, j \in DOMAIN st'.tasks :
          (st.tasks[i].result # None /\ st'.tasks[j].id = st.tasks[i].id
               /\ ret'.op # "reset") =>
              /\ st'.tasks[j].result = st.tasks[i].result
              /\ st'.tasks[j].files_modified = st.tasks[i].files_modified]_vars

----------------------------------------------------------------------------
(* Escalation flag and reason: claim C36 *)

\* C36: in every reachable state the escalation flag is set exactly when a
\* reason is stored, in memory and in state.json.
C36_FlagAndReasonAgree ==
    /\ st.human_intervention_requested <=> st.escalation_reason # None
    /\ state_file # <<>> =>
          (state_file[1].human_intervention_requested
              <=> state_file[1].escalation_reason # <<>>)

\* C36 witness: an escalation is pending with its reason, in memory and in
\* the document.
C36_Witness ==
    /\ st.human_intervention_requested
    /\ st.escalation_reason \in Reasons
    /\ state_file # <<>>
    /\ state_file[1].human_intervention_requested
    /\ state_file[1].escalation_reason = <<st.escalation_reason>>

\* C36 witness: the escalation has been cleared, flag and reason together.
C36_WitnessCleared ==
    /\ Returned("clear_escalation")
    /\ ~st.human_intervention_requested /\ st.escalation_reason = None
    /\ state_file = <<model_dump_json(st)>>
    /\ st.messages # <<>>

----------------------------------------------------------------------------
(* C37: vote maps *)

\* Every vote of the state has a map from agent role names to its options.
ValidVoteMaps(s) ==
    \A i \in DOMAIN s.active_votes :
        LET vote == s.active_votes[i]
        IN  /\ DOMAIN vote.votes \subseteq AgentRole
            /\ \A a \in DOMAIN vote.votes : InList(vote.votes[a], vote.options)
            /\ Cardinality(DOMAIN vote.votes) <= Cardinality(AgentRole)

\* C37: in every reachable state, every vote record, duplicates of a topic
\* included, maps agent role names to options of that record, so that no map
\* has more entries than there are roles; in memory and in the document.
C37_VoteMapsValid ==
    /\ ValidVoteMaps(st)
    /\ state_file # <<>> => ValidVoteMaps(ConversationStateFromJson(state_file[1]))

\* C37 witness: two votes on one topic, each holding a cast vote, saved.
C37_Witness ==
    /\ Len(st.active_votes) = 2
    /\ st.active_votes[1].topic = st.active_votes[2].topic
    /\ st.active_votes[1].votes # <<>>
    /\ st.active_votes[2].votes # <<>>
    /\ state_file = <<model_dump_json(st)>>

----------------------------------------------------------------------------
(* Task graphs that can be worked off: claim C38 *)

\* An agent claims a task that is pending.
ClaimPending(t, a) ==
    /\ get_task(st, t) # <<>>
    /\ get_task(st, t)[1].status = PENDING
    /\ ClaimTask(t, a, FALSE)

\* An agent completes a task it holds.
CompleteHeld(t, a) ==
    /\ get_task(st, t) # <<>>
    /\ get_task(st, t)[1].claimed_by = a
    /\ \E c \in Completions : CompleteTask(t, a, c[1], c[2], FALSE)

\* One engine whose agents claim pending tasks and complete the tasks they
\* hold, and keep doing so.
NextWork ==
    \/ Initialize
    \/ \E a \in Creators, to \in Assignees, deps \in DependencyLists :
            CreateTask(a, to, deps, FALSE)
    \/ \E t \in TaskIds, a \in TaskAgents : ClaimPending(t, a)
    \/ \E t \in TaskIds, a \in TaskAgents : CompleteHeld(t, a)
    \/ Reset

SpecWork ==
    /\ Init /\ [][NextWork]_vars
    /\ \A t \in TaskIds, a \in TaskAgents :
          WF_vars(ClaimPending(t, a)) /\ WF_vars(CompleteHeld(t, a))

\* Every dependency id names a task and no task lies on a cycle.
WellFormed(s) ==
    \A i \in DOMAIN s.tasks :
        /\ \A k \in DOMAIN s.tasks[i].dependencies :
              get_task(s, s.tasks[i].dependencies[k]) # <<>>
        /\ ~OnCycle(s, i)

AllCompleted(s) == \A i \in DOMAIN s.tasks : s.tasks[i].status = COMPLETED

\* Some task that is not completed has an agent whose claim or whose
\* complete returns the task.
SomeCallSucceeds(s) ==
    \E i \in DOMAIN s.tasks, a \in AgentRole :
        /\ s.tasks[i].status # COMPLETED
        /\ \/ claim_task(s, s.tasks[i].id, a).result # <<>>
           \/ \E c \in Completions :
                 complete_task(s, s.tasks[i].id, a, c[1], c[2]).result # <<>>

\* The state part of C38; outside the states in which every _save raises
\* (reset() before initialize()), where no call returns.
C38_CallSucceeds ==
    ~Unsaved /\ WellFormed(st) /\ ~AllCompleted(st) => SomeCallSucceeds(st)

\* C38: in every reachable state of one engine whose task graph is well
\* formed (every dependency id names a task, no cycle) and has a task that
\* is not completed, claim or complete succeeds for some agent on some task
\* that is not completed; and when agents fairly keep claiming pending
\* tasks and completing the tasks they hold, a well-formed graph leads to
\* every task being completed (or to a graph that is no longer well formed,
\* after a later create_task).
C38_NoDeadlock ==
    /\ []C38_CallSucceeds
    /\ (WellFormed(st) /\ ~AllCompleted(st)) ~> (AllCompleted(st) \/ ~WellFormed(st))

\* C38 witness: of two tasks the second depends on the first; the first has
\* just been completed by its holder and the second is pending: its claim
\* is the call that succeeds.
C38_Witness ==
    /\ Returned("complete_task") /\ ret.result # <<>>
    /\ Len(st.tasks) = 2
    /\ st.tasks[2].dependencies = <<st.tasks[1].id>>
    /\ st.tasks[1].dependencies = <<>>
    /\ st.tasks[1].status = COMPLETED
    /\ st.tasks[2].status = PENDING
    /\ WellFormed(st)
    /\ \E a \in AgentRole : claim_task(st, st.tasks[2].id, a).result # <<>>

\* C38 witness: both tasks of that graph are completed.
C38_WitnessAllCompleted ==
    /\ Len(st.tasks) = 2
    /\ st.tasks[2].dependencies = <<st.tasks[1].id>>
    /\ st.tasks[1].dependencies = <<>>
    /\ AllCompleted(st)
    /\ state_file = <<model_dump_json(st)>>

----------------------------------------------------------------------------
(* Processes whose calls do not overlap: claim C39 *)

\* A call is entered while no other process is inside a call.
StartCallAlone(p, op, args) ==
    /\ \A q \in Procs \ {p} : procs[q].pc = "idle"
    /\ StartCall(p, op, args)

\* The dispatcher processes, one call at a time.
NextTurns ==
    \E p \in Procs :
        \/ StartCallAlone(p, "create_task", <<>>)
        \/ StartCallAlone(p, "send_message", <<>>)
        \/ \E t \in KnownTaskIds : StartCallAlone(p, "claim_task", <<t>>)
        \/ Load(p)
        \/ CreateFile(p)
        \/ RunMethod(p)
        \/ Save(p)

SpecTurns == InitProcs /\ [][NextTurns]_vars

\* The entries of the document collection `old` are kept by `new`, in place;
\* `changed` is the id of the one entry the call may have rewritten.
KeptIn(old, new, changed) ==
    /\ Len(new) >= Len(old)
    /\ \A i \in DOMAIN old :
          /\ new[i].id = old[i].id
          /\ old[i].id # changed => new[i] = old[i]

\* Every claim that was won is in the document: the task is held by the
\* winner.
ClaimsInDocument(won, file) ==
    \A w \in won :
        \E i \in DOMAIN file[1].tasks :
            /\ file[1].tasks[i].id = w[1]
            /\ file[1].tasks[i].claimed_by = <<w[2]>>

\* C39: when the calls of the processes do not overlap, the initialize of
\* each call leaves the process with the state of the persisted document
\* (the effects of every earlier call of every process), the _save of each
\* call keeps every task and message of that document (but for the task a
\* claim rewrites) and adds what the call made, and once a call has
\* returned the document holds what it returned and every claim won so far.
C39_NothingLost ==
    [][\A p \in Procs :
          /\ (procs[p].pc = "load" /\ procs'[p].pc = "method") =>
                model_dump_json(procs'[p].st) = state_file[1]
          /\ (procs[p].pc = "save" /\ procs'[p].pc = "idle") =>
                LET claimed == IF procs[p].call.op = "claim_task"
                               THEN procs[p].call.args[1] ELSE 0
                IN  /\ KeptIn(state_file[1].tasks, state_file'[1].tasks, claimed)
                    /\ KeptIn(state_file[1].messages, state_file'[1].messages, 0)
                    /\ procs'[p].last.op \in {"create_task", "send_message"} =>
                          Persisted(p)'
                    /\ ClaimsInDocument(claims_won', state_file')
      ]_vars

\* C39 witness: after four calls in turn the document holds the task one
\* process created, held by the other process that claimed it, and a
\* message of each process.
C39_Witness ==
    /\ \A p \in Procs : procs[p].pc = "idle" /\ procs[p].calls = 2
    /\ Len(state_file[1].tasks) = 1
    /\ state_file[1].tasks[1].created_by = ProcAgent(1)
    /\ state_file[1].tasks[1].claimed_by = <<ProcAgent(2)>>
    /\ claims_won = {<<state_file[1].tasks[1].id, ProcAgent(2)>>}
    /\ \A p \in Procs :
          \E i \in DOMAIN state_file[1].messages :
              state_file[1].messages[i].from_agent = ProcAgent(p)

====
